---- MODULE Spec2Model ----
(***************************************************************************)
(* Weekly meal planner (zestify): the 14-slot position map, the recipe     *)
(* parser, the day-pairing slot assigner, and the ingest / swap / move /   *)
(* read operations on the `weekly` table.                                  *)
(*                                                                         *)
(* Text is a sequence of one-character strings, so that strip, split,      *)
(* startswith and replace are computed the way Python computes them.       *)
(***************************************************************************)
EXTENDS Integers, Sequences, FiniteSets, TLC

VARIABLES table, nextId, ops, response, request

\* The login rate limiter: the timestamps stored for the client IP, the clock,
\* each worker thread's position in login_rate_limit and its local
\* request_count, the number of login requests started, and the times at
\* which a login request was admitted.
VARIABLES storage, clock, pc, request_count, started, admitted

\* The server processes that share the database: for each one, the step its
\* request has reached and the values that the request holds locally.
VARIABLES proc

weekly == <<table, nextId, ops, response, request>>

limiter == <<storage, clock, pc, request_count, started, admitted>>

vars == <<table, nextId, ops, response, request, storage, clock, pc, request_count,
          started, admitted, proc>>

(***************************************************************************)
(* Bounds of the model.                                                    *)
(***************************************************************************)
\* Number of operations performed on the weekly table in one behaviour.
MaxOps == 2
\* Largest number of recipes in a text handed to the slot assigner.
MaxRecipes == 9
\* Largest number of lines in a text handed to the parser alone.
MaxLines == 4
\* Number of worker threads that run login_rate_limit at the same time.
MaxWorkers == 2
\* Number of requests from the client IP that reach a rate limiter in one
\* behaviour.
MaxLogins == 6
\* Number of clock ticks in one behaviour.
MaxTicks == 2
\* Number of rows of a stored table handed to the read.
MaxRows == 3

(***************************************************************************)
(* utils/constants.py                                                      *)
(***************************************************************************)
\* A position map whose last entry repeats the pair of position 12.
POSITION_MAP_DuplicatePair ==
    (0 :> <<"Monday", "Lunch">>) @@
    (1 :> <<"Monday", "Dinner">>) @@
    (2 :> <<"Tuesday", "Lunch">>) @@
    (3 :> <<"Tuesday", "Dinner">>) @@
    (4 :> <<"Wednesday", "Lunch">>) @@
    (5 :> <<"Wednesday", "Dinner">>) @@
    (6 :> <<"Thursday", "Lunch">>) @@
    (7 :> <<"Thursday", "Dinner">>) @@
    (8 :> <<"Friday", "Lunch">>) @@
    (9 :> <<"Friday", "Dinner">>) @@
    (10 :> <<"Saturday", "Lunch">>) @@
    (11 :> <<"Saturday", "Dinner">>) @@
    (12 :> <<"Sunday", "Lunch">>) @@
    (13 :> <<"Sunday", "Lunch">>)

POSITION_MAP ==
    (0 :> <<"Monday", "Lunch">>) @@
    (1 :> <<"Monday", "Dinner">>) @@
    (2 :> <<"Tuesday", "Lunch">>) @@
    (3 :> <<"Tuesday", "Dinner">>) @@
    (4 :> <<"Wednesday", "Lunch">>) @@
    (5 :> <<"Wednesday", "Dinner">>) @@
    (6 :> <<"Thursday", "Lunch">>) @@
    (7 :> <<"Thursday", "Dinner">>) @@
    (8 :> <<"Friday", "Lunch">>) @@
    (9 :> <<"Friday", "Dinner">>) @@
    (10 :> <<"Saturday", "Lunch">>) @@
    (11 :> <<"Saturday", "Dinner">>) @@
    (12 :> <<"Sunday", "Lunch">>) @@
    (13 :> <<"Sunday", "Dinner">>)

MEAL_TYPES == <<"Lunch", "Dinner">>

\* Operations.GT_NEGATIVE_ONE: the "delete all" filter is position > -1.
GT_NEGATIVE_ONE == -1

\* The value an operator returns where the code raises ValueError.
ValueError == -1

(***************************************************************************)
(* utils/position_mapping.py                                               *)
(***************************************************************************)
\* The module's own copy of the position map.
position_mapping_POSITION_MAP ==
    (0 :> <<"Monday", "Lunch">>) @@
    (1 :> <<"Monday", "Dinner">>) @@
    (2 :> <<"Tuesday", "Lunch">>) @@
    (3 :> <<"Tuesday", "Dinner">>) @@
    (4 :> <<"Wednesday", "Lunch">>) @@
    (5 :> <<"Wednesday", "Dinner">>) @@
    (6 :> <<"Thursday", "Lunch">>) @@
    (7 :> <<"Thursday", "Dinner">>) @@
    (8 :> <<"Friday", "Lunch">>) @@
    (9 :> <<"Friday", "Dinner">>) @@
    (10 :> <<"Saturday", "Lunch">>) @@
    (11 :> <<"Saturday", "Dinner">>) @@
    (12 :> <<"Sunday", "Lunch">>) @@
    (13 :> <<"Sunday", "Dinner">>)

\* normalize_position: Python's %, whose result has the sign of the divisor.
normalize_position(position) == position % Cardinality(DOMAIN position_mapping_POSITION_MAP)

\* What get_day_and_meal returns where the code raises ValueError.
InvalidPosition == <<"ValueError", "Invalid position {position}. Must be 0-13.">>

\* A lookup that wraps the position into the range instead of refusing it.
get_day_and_meal_Wrapping(position) ==
    position_mapping_POSITION_MAP[normalize_position(position)]

\* get_day_and_meal
get_day_and_meal(position) ==
    IF position \notin DOMAIN position_mapping_POSITION_MAP
    THEN InvalidPosition
    ELSE position_mapping_POSITION_MAP[position]

(***************************************************************************)
(* Python's str methods, on sequences of characters.                       *)
(***************************************************************************)
Range(s) == {s[i] : i \in DOMAIN s}

IsSpace(c) == c \in {" ", "\n"}

RECURSIVE lstrip(_, _)
\* str.lstrip(chars): drop leading characters that are in the set chars.
lstrip(s, chars) ==
    IF s # <<>> /\ Head(s) \in chars THEN lstrip(Tail(s), chars) ELSE s

RECURSIVE rstrip(_, _)
rstrip(s, chars) ==
    IF s # <<>> /\ s[Len(s)] \in chars
    THEN rstrip(SubSeq(s, 1, Len(s) - 1), chars)
    ELSE s

\* str.strip(): drop leading and trailing whitespace.
strip(s) == rstrip(lstrip(s, {" ", "\n"}), {" ", "\n"})

\* str.startswith(prefix)
startswith(s, prefix) ==
    Len(s) >= Len(prefix) /\ SubSeq(s, 1, Len(prefix)) = prefix

\* str.find(sep), 1-based; 0 when sep does not occur.
find(s, sep) ==
    LET hits == {i \in 1..(Len(s) - Len(sep) + 1) :
                    SubSeq(s, i, i + Len(sep) - 1) = sep}
    IN IF hits = {} THEN 0 ELSE CHOOSE i \in hits : \A j \in hits : i <= j

RECURSIVE split(_, _)
\* str.split(sep) for a non-empty separator: always at least one piece.
split(s, sep) ==
    LET i == find(s, sep)
    IN IF i = 0
       THEN <<s>>
       ELSE <<SubSeq(s, 1, i - 1)>> \o split(SubSeq(s, i + Len(sep), Len(s)), sep)

\* str.splitlines(): no piece for the empty string, none after a final newline.
splitlines(s) ==
    IF s = <<>>
    THEN <<>>
    ELSE LET parts == split(s, <<"\n">>)
         IN IF parts[Len(parts)] = <<>>
            THEN SubSeq(parts, 1, Len(parts) - 1)
            ELSE parts

RECURSIVE join(_, _)
\* sep.join(parts)
join(sep, parts) ==
    IF parts = <<>> THEN <<>>
    ELSE IF Len(parts) = 1 THEN parts[1]
    ELSE parts[1] \o sep \o join(sep, Tail(parts))

\* str.replace(old, ""): every non-overlapping occurrence, left to right.
replace_with_empty(s, old) == join(<<>>, split(s, old))

RECURSIVE SelectNonEmpty(_)
SelectNonEmpty(parts) ==
    IF parts = <<>> THEN <<>>
    ELSE IF Head(parts) = <<>> THEN SelectNonEmpty(Tail(parts))
    ELSE <<Head(parts)>> \o SelectNonEmpty(Tail(parts))

StripEach(parts) == [i \in DOMAIN parts |-> strip(parts[i])]

(***************************************************************************)
(* services/ingredients.py: the reverse lookup, the parser.                *)
(***************************************************************************)
\* IngredientService._get_position: the reverse map is rebuilt from
\* POSITION_MAP by a dict comprehension, so of two positions with the same
\* (day, meal) pair the later one wins.
_get_position(day_name, meal_type) ==
    LET hits == {p \in DOMAIN POSITION_MAP : POSITION_MAP[p] = <<day_name, meal_type>>}
    IN IF meal_type \notin Range(MEAL_TYPES) THEN ValueError
       ELSE IF hits = {} THEN ValueError
       ELSE CHOOSE p \in hits : \A q \in hits : q <= p

\* IngredientService._clean_input_texts, the recipes part.
_clean_input_texts(recipes_text) ==
    join(<<"\n">>, SelectNonEmpty(StripEach(splitlines(recipes_text))))

\* The ingredient lines of one section: the stripped lines after the first
\* that start with "## ", with every "## " removed.
IngredientLines(lines) ==
    LET rest == StripEach(Tail(lines))
        RECURSIVE keep(_)
        keep(ls) ==
            IF ls = <<>> THEN <<>>
            ELSE IF Head(ls) # <<>> /\ startswith(Head(ls), <<"#", "#", " ">>)
                 THEN <<replace_with_empty(Head(ls), <<"#", "#", " ">>)>> \o keep(Tail(ls))
                 ELSE keep(Tail(ls))
    IN keep(rest)

\* A section is kept as soon as it has a URL, with or without ingredients.
ParseSection_UrlIsEnough(section) ==
    IF strip(section) = <<>> THEN <<>>
    ELSE LET lines == split(strip(section), <<"\n">>)
             url == strip(lstrip(strip(lines[1]), {"#", " "}))
             ingredients == join(<<"\n">>, IngredientLines(lines))
         IN IF url # <<>>
            THEN <<[url |-> url, ingredients |-> ingredients]>>
            ELSE <<>>

\* One section of the input: <<recipe>> or <<>> when the section is dropped.
ParseSection(section) ==
    IF strip(section) = <<>> THEN <<>>
    ELSE LET lines == split(strip(section), <<"\n">>)
             url == strip(lstrip(strip(lines[1]), {"#", " "}))
             ingredients == join(<<"\n">>, IngredientLines(lines))
         IN IF url # <<>> /\ ingredients # <<>>
            THEN <<[url |-> url, ingredients |-> ingredients]>>
            ELSE <<>>

RECURSIVE ParseSections(_)
ParseSections(sections) ==
    IF sections = <<>> THEN <<>>
    ELSE ParseSection(Head(sections)) \o ParseSections(Tail(sections))

\* IngredientService._parse_input_to_list
_parse_input_to_list(input_text) ==
    ParseSections(split(input_text, <<"\n", "#", " ">>))

(***************************************************************************)
(* utils/validation.py                                                     *)
(***************************************************************************)
\* pydantic's HttpUrl on the characters of the model: "h" stands for a scheme
\* and host ("http://host"), and what follows it must be a path starting
\* with "/". The result is the URL as pydantic prints it: a URL without a
\* path gets the path "/". <<>> stands for a rejected URL.
HttpUrl(u) ==
    IF /\ u # <<>>
       /\ u[1] = "h"
       /\ (Len(u) = 1 \/ u[2] = "/")
       /\ \A i \in DOMAIN u : ~IsSpace(u[i])
    THEN IF Len(u) = 1 THEN u \o <<"/">> ELSE u
    ELSE <<>>

\* validate_url: <<>> where the code raises ValidationError.
validate_url(url) ==
    IF url = <<>> THEN <<>> ELSE HttpUrl(strip(url))

\* The position of a row whose position column is null (Python's None): an
\* integer that is no slot and that no request can name.
None == -99

\* validate_position: TRUE where the code returns the position.
validate_position(position) ==
    ~(position < 0 \/ position > 13)

(***************************************************************************)
(* db/ingredients_repository.py                                            *)
(*                                                                         *)
(* The weekly table is the sequence of its rows in insertion order. A      *)
(* repository call returns [table, nextId, ok]; ok = FALSE is an           *)
(* exception, and `raises` says that the storage call itself fails.        *)
(***************************************************************************)
Row(id, link, position, day_name, meal_type) ==
    [id |-> id, link |-> link, position |-> position,
     day_name |-> day_name, meal_type |-> meal_type]

\* A delete whose filter is position > 0, which keeps the rows of slot 0.
delete_all_weekly_GreaterThanZero(tbl) ==
    LET Stays(r) == ~(r.position > 0)
    IN SelectSeq(tbl, Stays)

\* IngredientsRepository.delete_all_weekly: delete where position > -1.
delete_all_weekly(tbl) ==
    LET Stays(r) == ~(r.position > GT_NEGATIVE_ONE)
    IN SelectSeq(tbl, Stays)

\* An insert that replaces the rows already stored at the position.
insert_weekly_meal_ReplaceAtPosition(tbl, nid, url, position, day_name, meal_type, raises) ==
    LET link == validate_url(url)
        elsewhere(r) == r.position # position
    IN IF url # <<>> /\ link = <<>> THEN [table |-> tbl, nextId |-> nid, ok |-> FALSE]
       ELSE IF ~validate_position(position) THEN [table |-> tbl, nextId |-> nid, ok |-> FALSE]
       ELSE IF raises THEN [table |-> tbl, nextId |-> nid, ok |-> FALSE]
       ELSE [table |-> Append(SelectSeq(tbl, elsewhere),
                              Row(nid, link, position, day_name, meal_type)),
             nextId |-> nid + 1, ok |-> TRUE]

\* An insert that leaves the position column out, so that it is stored null.
insert_weekly_meal_WithoutPosition(tbl, nid, url, position, day_name, meal_type, raises) ==
    LET link == validate_url(url)
    IN IF url # <<>> /\ link = <<>> THEN [table |-> tbl, nextId |-> nid, ok |-> FALSE]
       ELSE IF ~validate_position(position) THEN [table |-> tbl, nextId |-> nid, ok |-> FALSE]
       ELSE IF raises THEN [table |-> tbl, nextId |-> nid, ok |-> FALSE]
       ELSE [table |-> Append(tbl, Row(nid, link, None, day_name, meal_type)),
             nextId |-> nid + 1, ok |-> TRUE]

\* IngredientsRepository.insert_weekly_meal
insert_weekly_meal(tbl, nid, url, position, day_name, meal_type, raises) ==
    LET link == validate_url(url)
    IN IF url # <<>> /\ link = <<>> THEN [table |-> tbl, nextId |-> nid, ok |-> FALSE]
       ELSE IF ~validate_position(position) THEN [table |-> tbl, nextId |-> nid, ok |-> FALSE]
       ELSE IF raises THEN [table |-> tbl, nextId |-> nid, ok |-> FALSE]
       ELSE [table |-> Append(tbl, Row(nid, link, position, day_name, meal_type)),
             nextId |-> nid + 1, ok |-> TRUE]

(***************************************************************************)
(* services/ingredients.py: the slot assigner.                             *)
(***************************************************************************)
\* Day pairs of which the last one starts on the Saturday of the third.
day_pairs_OverlappingPairs ==
    << <<"Monday", "Tuesday">>,
       <<"Wednesday", "Thursday">>,
       <<"Friday", "Saturday">>,
       <<"Saturday", "Sunday">> >>

day_pairs ==
    << <<"Monday", "Tuesday">>,
       <<"Wednesday", "Thursday">>,
       <<"Friday", "Saturday">>,
       <<"Sunday", "Sunday">> >>

\* A pair index that gives every recipe a pair of its own.
pair_index_of_PerRecipe(index) == index % Len(day_pairs)

\* A pair index that stays on the last pair instead of wrapping.
pair_index_of_Clamp(index) ==
    LET pair_index == index \div 2
    IN IF pair_index >= Len(day_pairs) THEN Len(day_pairs) - 1 ELSE pair_index

\* The pair index of recipe `index` (0-based): index // 2, wrapped to the
\* number of pairs when it is past the last pair.
pair_index_of(index) ==
    LET pair_index == index \div 2
    IN IF pair_index >= Len(day_pairs) THEN pair_index % Len(day_pairs) ELSE pair_index

RECURSIVE DayLoop_NoBreak(_, _, _, _, _, _)
\* The day loop without the break after a Sunday.
DayLoop_NoBreak(st, url, day_pair, meal_type, d, failInsert) ==
    IF d > Len(day_pair) \/ ~st.ok THEN st
    ELSE LET day_name == day_pair[d]
             position == _get_position(day_name, meal_type)
         IN IF position = ValueError THEN [st EXCEPT !.ok = FALSE]
            ELSE LET r == insert_weekly_meal(st.table, st.nextId, url, position,
                                             day_name, meal_type,
                                             st.calls + 1 = failInsert)
                     st2 == [table |-> r.table, nextId |-> r.nextId, ok |-> r.ok,
                             calls |-> st.calls + 1]
                 IN DayLoop_NoBreak(st2, url, day_pair, meal_type, d + 1, failInsert)

RECURSIVE DayLoop(_, _, _, _, _, _)
\* for day_name in day_pair: insert; break after a Sunday.
\* st = [table, nextId, ok, calls]; calls counts the insert calls made, and
\* failInsert is the call on which the storage fails (0: on none).
DayLoop(st, url, day_pair, meal_type, d, failInsert) ==
    IF d > Len(day_pair) \/ ~st.ok THEN st
    ELSE LET day_name == day_pair[d]
             position == _get_position(day_name, meal_type)
         IN IF position = ValueError THEN [st EXCEPT !.ok = FALSE]
            ELSE LET r == insert_weekly_meal(st.table, st.nextId, url, position,
                                             day_name, meal_type,
                                             st.calls + 1 = failInsert)
                     st2 == [table |-> r.table, nextId |-> r.nextId, ok |-> r.ok,
                             calls |-> st.calls + 1]
                 IN IF day_name = "Sunday" THEN st2
                    ELSE DayLoop(st2, url, day_pair, meal_type, d + 1, failInsert)

RECURSIVE RecipeLoop(_, _, _, _)
\* for index, item in enumerate(parsed_data)
RecipeLoop(st, parsed_data, index, failInsert) ==
    IF index >= Len(parsed_data) \/ ~st.ok THEN st
    ELSE LET item == parsed_data[index + 1]
             day_pair == day_pairs[pair_index_of(index) + 1]
             meal_type == MEAL_TYPES[(index % 2) + 1]
         IN RecipeLoop(DayLoop(st, item.url, day_pair, meal_type, 1, failInsert),
                       parsed_data, index + 1, failInsert)

\* IngredientService._add_meals_with_day_pairing
_add_meals_with_day_pairing(tbl, nid, parsed_data, failInsert) ==
    RecipeLoop([table |-> tbl, nextId |-> nid, ok |-> TRUE, calls |-> 0],
               parsed_data, 0, failInsert)

(***************************************************************************)
(* Responses. Every operation answers with one record:                     *)
(*   op          the operation                                             *)
(*   status      "success" or "error"                                      *)
(*   code        the envelope's error code, "" on success                  *)
(*   http        the HTTP status                                           *)
(*   error_type  the class of the exception, "" on success                 *)
(*   message     the error message: its text, and the id it names (0: none)*)
(*   llm_called  whether the language model was called                     *)
(*   data        what the operation returns (the plan view of a read)      *)
(***************************************************************************)
NoMessage == [text |-> "", id |-> 0, raw |-> ""]

Success(op, llm_called, data) ==
    [op |-> op, status |-> "success", code |-> "", http |-> 200, error_type |-> "",
     message |-> NoMessage, llm_called |-> llm_called, data |-> data]

Error(op, code, http, error_type, message, llm_called) ==
    [op |-> op, status |-> "error", code |-> code, http |-> http,
     error_type |-> error_type, message |-> message, llm_called |-> llm_called,
     data |-> <<>>]

NoResponse == Success("none", FALSE, <<>>)

(***************************************************************************)
(* services/ingredients.py: ingest.                                        *)
(*                                                                         *)
(* fault.call names the external call that fails in this run: "none",      *)
(* "delete_all" or "llm", and fault.raw is the text of the exception it    *)
(* raises; failInsert is the insert call that fails (0: none).             *)
(***************************************************************************)
\* schemas/ingredients.py: recipes_text has min_length=10.
MinLength == 10

ProcessingMessage ==
    [text |-> "An error occurred while processing the recipes. Please try again.",
     id |-> 0, raw |-> ""]

\* An ingest that puts the stored plan back when an insert fails.
process_recipes_RestoreOnFailure(tbl, nid, recipes_text, fault, failInsert) ==
    LET failed(error_type, llm) ==
            Error("ingest", "PROCESSING_ERROR", 0, error_type, ProcessingMessage, llm)
    IN IF fault.call = "delete_all"
       THEN [table |-> tbl, nextId |-> nid, resp |-> failed("RepositoryError", FALSE)]
       ELSE LET cleared == delete_all_weekly(tbl)
                parsed_recipes == _parse_input_to_list(_clean_input_texts(recipes_text))
                st == _add_meals_with_day_pairing(cleared, nid, parsed_recipes, failInsert)
            IN IF ~st.ok
               THEN [table |-> tbl, nextId |-> st.nextId,
                     resp |-> failed("RepositoryError", FALSE)]
               ELSE IF fault.call = "llm"
               THEN [table |-> st.table, nextId |-> st.nextId,
                     resp |-> failed("ClientError", TRUE)]
               ELSE [table |-> st.table, nextId |-> st.nextId,
                     resp |-> Success("ingest", TRUE, <<>>)]

\* An ingest that puts the stored plan back when the language model fails.
process_recipes_RollBackOnLlmFailure(tbl, nid, recipes_text, fault, failInsert) ==
    LET failed(error_type, llm) ==
            Error("ingest", "PROCESSING_ERROR", 0, error_type, ProcessingMessage, llm)
    IN IF fault.call = "delete_all"
       THEN [table |-> tbl, nextId |-> nid, resp |-> failed("RepositoryError", FALSE)]
       ELSE LET cleared == delete_all_weekly(tbl)
                parsed_recipes == _parse_input_to_list(_clean_input_texts(recipes_text))
                st == _add_meals_with_day_pairing(cleared, nid, parsed_recipes, failInsert)
            IN IF ~st.ok
               THEN [table |-> st.table, nextId |-> st.nextId,
                     resp |-> failed("RepositoryError", FALSE)]
               ELSE IF fault.call = "llm"
               THEN [table |-> tbl, nextId |-> st.nextId,
                     resp |-> failed("ClientError", TRUE)]
               ELSE [table |-> st.table, nextId |-> st.nextId,
                     resp |-> Success("ingest", TRUE, <<>>)]

\* IngredientService.process_recipes: [table, nextId, resp]. Every exception
\* is caught and answered with the PROCESSING_ERROR envelope.
process_recipes(tbl, nid, recipes_text, fault, failInsert) ==
    LET failed(error_type, llm) ==
            Error("ingest", "PROCESSING_ERROR", 0, error_type, ProcessingMessage, llm)
    IN IF fault.call = "delete_all"
       THEN [table |-> tbl, nextId |-> nid, resp |-> failed("RepositoryError", FALSE)]
       ELSE LET cleared == delete_all_weekly(tbl)
                parsed_recipes == _parse_input_to_list(_clean_input_texts(recipes_text))
                st == _add_meals_with_day_pairing(cleared, nid, parsed_recipes, failInsert)
            IN IF ~st.ok
               THEN [table |-> st.table, nextId |-> st.nextId,
                     resp |-> failed("RepositoryError", FALSE)]
               ELSE IF fault.call = "llm"
               THEN [table |-> st.table, nextId |-> st.nextId,
                     resp |-> failed("ClientError", TRUE)]
               ELSE [table |-> st.table, nextId |-> st.nextId,
                     resp |-> Success("ingest", TRUE, <<>>)]

\* IngredientService.handle_ingredients_request: the HTTP status of the result.
handle_ingredients_request(tbl, nid, recipes_text, fault, failInsert) ==
    LET r == process_recipes(tbl, nid, recipes_text, fault, failInsert)
        status_code ==
            IF r.resp.status = "error"
            THEN IF r.resp.code = "INGREDIENTS_DB_ERROR" THEN 503 ELSE 500
            ELSE 200
    IN [r EXCEPT !.resp.http = status_code]

\* A request schema that only asks for a non-empty text.
IngredientsRequest_NonEmptyOnly(body_text) ==
    LET recipes_text == strip(body_text)
    IN [valid |-> Len(recipes_text) >= 1, recipes_text |-> recipes_text]

\* IngredientsRequest: the text is stripped, then must have MinLength characters.
IngredientsRequest(body_text) ==
    LET recipes_text == strip(body_text)
    IN [valid |-> Len(recipes_text) >= MinLength, recipes_text |-> recipes_text]

ValidationFailed(op) ==
    Error(op, "VALIDATION_ERROR", 422, "RequestValidationError",
          [text |-> "Invalid input. Please check your data and try again.", id |-> 0,
           raw |-> ""],
          FALSE)

\* POST /ingredients: the request body is validated before the handler runs.
ingredients(tbl, nid, body_text, fault, failInsert) ==
    LET ingredients_request == IngredientsRequest(body_text)
    IN IF ~ingredients_request.valid
       THEN [table |-> tbl, nextId |-> nid, resp |-> ValidationFailed("ingest")]
       ELSE handle_ingredients_request(tbl, nid, ingredients_request.recipes_text,
                                       fault, failInsert)

(***************************************************************************)
(* services/weekly.py: swap.                                               *)
(*                                                                         *)
(* fault.call names the storage call that fails in this run: "none",       *)
(* "fetch1", "fetch2", "update1" or "update2"; fault.raw is the text of    *)
(* the exception it raises.                                                *)
(***************************************************************************)
\* The empty string as an id (`not meal1_id`).
EmptyId == 0

\* select(...).eq("id", meal_id).limit(1): the rows found, at most one.
SelectById(tbl, meal_id) ==
    LET Hit(r) == r.id = meal_id
        rows == SelectSeq(tbl, Hit)
    IN IF rows = <<>> THEN <<>> ELSE <<rows[1]>>

\* update({"position": position}).eq("id", meal_id): the position column alone.
UpdatePositionOnly(tbl, meal_id, position) ==
    [i \in DOMAIN tbl |->
        IF tbl[i].id = meal_id THEN [tbl[i] EXCEPT !.position = position] ELSE tbl[i]]

SwapFailed(text, id, raw) ==
    Error("swap", "", 500, "WeeklyServiceError",
          [text |-> text, id |-> id, raw |-> raw], FALSE)

SwapNotFound == "Database error during meal swap: Meal with ID {id} not found"

SwapStorageError == "Database error during meal swap: {e}"

\* A swap that writes the first entry before it has looked up the second.
swap_meal_positions_UpdateBeforeSecondFetch(tbl, meal1_id, meal2_id, fault) ==
    IF meal1_id = EmptyId \/ meal2_id = EmptyId
    THEN [table |-> tbl,
          resp |-> Error("swap", "", 500, "ValueError",
                         [text |-> "Both meal1_id and meal2_id are required", id |-> 0,
                          raw |-> ""],
                         FALSE)]
    ELSE LET meal1_result == SelectById(tbl, meal1_id)
             meal2_result == SelectById(tbl, meal2_id)
         IN IF fault.call = "fetch1"
            THEN [table |-> tbl, resp |-> SwapFailed(SwapStorageError, 0, fault.raw)]
            ELSE IF meal1_result = <<>>
            THEN [table |-> tbl, resp |-> SwapFailed(SwapNotFound, meal1_id, "")]
            ELSE LET parked == UpdatePositionOnly(tbl, meal1_id, GT_NEGATIVE_ONE)
                 IN IF fault.call = "fetch2"
                    THEN [table |-> parked, resp |-> SwapFailed(SwapStorageError, 0, fault.raw)]
                    ELSE IF meal2_result = <<>>
                    THEN [table |-> parked, resp |-> SwapFailed(SwapNotFound, meal2_id, "")]
                    ELSE LET meal1_pos == meal1_result[1].position
                             meal2_pos == meal2_result[1].position
                             first == UpdatePositionOnly(tbl, meal1_id, meal2_pos)
                             second == UpdatePositionOnly(first, meal2_id, meal1_pos)
                         IN IF fault.call = "update1"
                            THEN [table |-> parked, resp |-> SwapFailed(SwapStorageError, 0, fault.raw)]
                            ELSE IF fault.call = "update2"
                            THEN [table |-> first, resp |-> SwapFailed(SwapStorageError, 0, fault.raw)]
                            ELSE [table |-> second, resp |-> Success("swap", FALSE, <<>>)]

\* A swap that puts the first entry back when the second update fails.
swap_meal_positions_RestoreOnFailure(tbl, meal1_id, meal2_id, fault) ==
    IF meal1_id = EmptyId \/ meal2_id = EmptyId
    THEN [table |-> tbl,
          resp |-> Error("swap", "", 500, "ValueError",
                         [text |-> "Both meal1_id and meal2_id are required", id |-> 0,
                          raw |-> ""],
                         FALSE)]
    ELSE LET meal1_result == SelectById(tbl, meal1_id)
             meal2_result == SelectById(tbl, meal2_id)
         IN IF fault.call = "fetch1"
            THEN [table |-> tbl, resp |-> SwapFailed(SwapStorageError, 0, fault.raw)]
            ELSE IF meal1_result = <<>>
            THEN [table |-> tbl, resp |-> SwapFailed(SwapNotFound, meal1_id, "")]
            ELSE IF fault.call = "fetch2"
            THEN [table |-> tbl, resp |-> SwapFailed(SwapStorageError, 0, fault.raw)]
            ELSE IF meal2_result = <<>>
            THEN [table |-> tbl, resp |-> SwapFailed(SwapNotFound, meal2_id, "")]
            ELSE LET meal1_pos == meal1_result[1].position
                     meal2_pos == meal2_result[1].position
                     first == UpdatePositionOnly(tbl, meal1_id, meal2_pos)
                     second == UpdatePositionOnly(first, meal2_id, meal1_pos)
                 IN IF fault.call \in {"update1", "update2"}
                    THEN [table |-> tbl, resp |-> SwapFailed(SwapStorageError, 0, fault.raw)]
                    ELSE [table |-> second, resp |-> Success("swap", FALSE, <<>>)]

\* A swap whose second update writes the position that the first entry has
\* after the first update.
swap_meal_positions_RereadBeforeSecondUpdate(tbl, meal1_id, meal2_id, fault) ==
    IF meal1_id = EmptyId \/ meal2_id = EmptyId
    THEN [table |-> tbl,
          resp |-> Error("swap", "", 500, "ValueError",
                         [text |-> "Both meal1_id and meal2_id are required", id |-> 0,
                          raw |-> ""],
                         FALSE)]
    ELSE LET meal1_result == SelectById(tbl, meal1_id)
             meal2_result == SelectById(tbl, meal2_id)
         IN IF fault.call = "fetch1"
            THEN [table |-> tbl, resp |-> SwapFailed(SwapStorageError, 0, fault.raw)]
            ELSE IF meal1_result = <<>>
            THEN [table |-> tbl, resp |-> SwapFailed(SwapNotFound, meal1_id, "")]
            ELSE IF fault.call = "fetch2"
            THEN [table |-> tbl, resp |-> SwapFailed(SwapStorageError, 0, fault.raw)]
            ELSE IF meal2_result = <<>>
            THEN [table |-> tbl, resp |-> SwapFailed(SwapNotFound, meal2_id, "")]
            ELSE LET meal1_pos == meal1_result[1].position
                     meal2_pos == meal2_result[1].position
                     first == UpdatePositionOnly(tbl, meal1_id, meal2_pos)
                     second == UpdatePositionOnly(first, meal2_id,
                                                  SelectById(first, meal1_id)[1].position)
                 IN IF fault.call = "update1"
                    THEN [table |-> tbl, resp |-> SwapFailed(SwapStorageError, 0, fault.raw)]
                    ELSE IF fault.call = "update2"
                    THEN [table |-> first, resp |-> SwapFailed(SwapStorageError, 0, fault.raw)]
                    ELSE [table |-> second, resp |-> Success("swap", FALSE, <<>>)]

\* WeeklyService.swap_meal_positions: [table, resp].
swap_meal_positions(tbl, meal1_id, meal2_id, fault) ==
    IF meal1_id = EmptyId \/ meal2_id = EmptyId
    THEN [table |-> tbl,
          resp |-> Error("swap", "", 500, "ValueError",
                         [text |-> "Both meal1_id and meal2_id are required", id |-> 0,
                          raw |-> ""],
                         FALSE)]
    ELSE LET meal1_result == SelectById(tbl, meal1_id)
             meal2_result == SelectById(tbl, meal2_id)
         IN IF fault.call = "fetch1"
            THEN [table |-> tbl, resp |-> SwapFailed(SwapStorageError, 0, fault.raw)]
            ELSE IF meal1_result = <<>>
            THEN [table |-> tbl, resp |-> SwapFailed(SwapNotFound, meal1_id, "")]
            ELSE IF fault.call = "fetch2"
            THEN [table |-> tbl, resp |-> SwapFailed(SwapStorageError, 0, fault.raw)]
            ELSE IF meal2_result = <<>>
            THEN [table |-> tbl, resp |-> SwapFailed(SwapNotFound, meal2_id, "")]
            ELSE LET meal1_pos == meal1_result[1].position
                     meal2_pos == meal2_result[1].position
                     first == UpdatePositionOnly(tbl, meal1_id, meal2_pos)
                     second == UpdatePositionOnly(first, meal2_id, meal1_pos)
                 IN IF fault.call = "update1"
                    THEN [table |-> tbl, resp |-> SwapFailed(SwapStorageError, 0, fault.raw)]
                    ELSE IF fault.call = "update2"
                    THEN [table |-> first, resp |-> SwapFailed(SwapStorageError, 0, fault.raw)]
                    ELSE [table |-> second, resp |-> Success("swap", FALSE, <<>>)]

(***************************************************************************)
(* db/weekly_repository.py and the move operation.                         *)
(***************************************************************************)
\* WeeklyRepository.fetch_position
fetch_position(tbl, meal_id) == SelectById(tbl, meal_id)

\* WeeklyRepository.update_position: position, day_name and meal_type are
\* written together; [table, ok].
update_position(tbl, meal_id, position, raises) ==
    IF ~validate_position(position) \/ raises
    THEN [table |-> tbl, ok |-> FALSE]
    ELSE LET day == POSITION_MAP[position][1]
             meal == POSITION_MAP[position][2]
         IN [table |-> [i \in DOMAIN tbl |->
                           IF tbl[i].id = meal_id
                           THEN [tbl[i] EXCEPT !.position = position,
                                               !.day_name = day,
                                               !.meal_type = meal]
                           ELSE tbl[i]],
             ok |-> TRUE]

\* A request schema that bounds target_position from below only.
MoveMealRequest_NoUpperBound(meal_id, target_position) ==
    meal_id # EmptyId /\ target_position >= 0

\* schemas/weekly.py MoveMealRequest: meal_id non-empty, 0 <= target_position <= 13.
MoveMealRequest(meal_id, target_position) ==
    meal_id # EmptyId /\ target_position >= 0 /\ target_position <= 13

MoveFailed(http, error_type, text, id) ==
    Error("move", "MOVE_ERROR", http, error_type,
          [text |-> text, id |-> id, raw |-> ""], FALSE)

\* A move handler that updates without confirming that the entry exists.
handle_move_meal_request_NoExistenceCheck(tbl, meal_id, target_position, fault) ==
    IF ~MoveMealRequest(meal_id, target_position)
    THEN [table |-> tbl, resp |-> ValidationFailed("move")]
    ELSE LET r == update_position(tbl, meal_id, target_position, fault.call = "update")
         IN IF ~r.ok
            THEN [table |-> r.table,
                  resp |-> MoveFailed(503, "RepositoryError",
                                      "Repository operation failed: update_meal_position", 0)]
            ELSE [table |-> r.table, resp |-> Success("move", FALSE, <<>>)]

\* The move handler: the entry is fetched to confirm that it exists, then its
\* position is updated whether or not the target is occupied. fault names the
\* storage call that fails (fault.call): "none", "fetch" or "update".
handle_move_meal_request(tbl, meal_id, target_position, fault) ==
    IF ~MoveMealRequest(meal_id, target_position)
    THEN [table |-> tbl, resp |-> ValidationFailed("move")]
    ELSE IF fault.call = "fetch"
    THEN [table |-> tbl,
          resp |-> MoveFailed(503, "RepositoryError",
                              "Repository operation failed: fetch_meal_position", 0)]
    ELSE IF fetch_position(tbl, meal_id) = <<>>
    THEN [table |-> tbl,
          resp |-> MoveFailed(400, "NotFoundError", "Meal with ID {id} not found", meal_id)]
    ELSE LET r == update_position(tbl, meal_id, target_position, fault.call = "update")
         IN IF ~r.ok
            THEN [table |-> r.table,
                  resp |-> MoveFailed(503, "RepositoryError",
                                      "Repository operation failed: update_meal_position", 0)]
            ELSE [table |-> r.table, resp |-> Success("move", FALSE, <<>>)]

\* POST /move-meal: the request body is validated before the handler runs.
move_meal(tbl, meal_id, target_position, fault) ==
    IF ~MoveMealRequest(meal_id, target_position)
    THEN [table |-> tbl, resp |-> ValidationFailed("move")]
    ELSE handle_move_meal_request(tbl, meal_id, target_position, fault)

(***************************************************************************)
(* services/weekly.py: read.                                               *)
(***************************************************************************)
EmptyDay == ("Lunch" :> <<>>) @@ ("Dinner" :> <<>>)

\* An empty plan that lacks Sunday.
_create_empty_meal_plan_NoSunday ==
    ("Monday" :> EmptyDay) @@
    ("Tuesday" :> EmptyDay) @@
    ("Wednesday" :> EmptyDay) @@
    ("Thursday" :> EmptyDay) @@
    ("Friday" :> EmptyDay) @@
    ("Saturday" :> EmptyDay)

\* WeeklyService._create_empty_meal_plan
_create_empty_meal_plan ==
    ("Monday" :> EmptyDay) @@
    ("Tuesday" :> EmptyDay) @@
    ("Wednesday" :> EmptyDay) @@
    ("Thursday" :> EmptyDay) @@
    ("Friday" :> EmptyDay) @@
    ("Saturday" :> EmptyDay) @@
    ("Sunday" :> EmptyDay)

RECURSIVE order_by_position(_)
\* select("*").order("position", desc=False): rows of equal position are kept
\* in insertion order, and rows with a null position come last.
order_by_position(rows) ==
    IF rows = <<>> THEN <<>>
    ELSE LET n == Len(rows)
             sorted == order_by_position(SubSeq(rows, 1, n - 1))
             before(r) == \/ rows[n].position = None
                          \/ r.position # None /\ r.position <= rows[n].position
             k == Cardinality({i \in DOMAIN sorted : before(sorted[i])})
         IN SubSeq(sorted, 1, k) \o <<rows[n]>> \o SubSeq(sorted, k + 1, Len(sorted))

RECURSIVE PlaceLinks_ByStoredDay(_, _)
\* A loop that files a row under the day_name and meal_type stored in it.
PlaceLinks_ByStoredDay(st, links) ==
    IF links = <<>> \/ ~st.ok THEN st
    ELSE LET link == Head(links)
             day == link.day_name
             meal == link.meal_type
         IN IF day \in DOMAIN st.meal_plan /\ meal \in DOMAIN st.meal_plan[day]
            THEN PlaceLinks_ByStoredDay(
                     [st EXCEPT !.meal_plan[day][meal] = Append(@, link)], Tail(links))
            ELSE [st EXCEPT !.ok = FALSE]

RECURSIVE PlaceLinks(_, _)
\* The loop of get_weekly_meal_plan over the fetched rows: a row with a
\* position of the map is appended to meal_plan[day][meal], which raises
\* KeyError (ok = FALSE) when the plan lacks the key.
PlaceLinks(st, links) ==
    IF links = <<>> \/ ~st.ok THEN st
    ELSE LET link == Head(links)
             position == link.position
         IN IF position # None /\ position \in DOMAIN POSITION_MAP
            THEN LET day == POSITION_MAP[position][1]
                     meal == POSITION_MAP[position][2]
                 IN IF day \in DOMAIN st.meal_plan /\ meal \in DOMAIN st.meal_plan[day]
                    THEN PlaceLinks(
                             [st EXCEPT !.meal_plan[day][meal] = Append(@, link)],
                             Tail(links))
                    ELSE [st EXCEPT !.ok = FALSE]
            ELSE PlaceLinks(st, Tail(links))

LoadFailed(raw) ==
    Error("read", "", 500, "WeeklyServiceError",
          [text |-> "Error loading weekly meal plan: {e}", id |-> 0, raw |-> raw], FALSE)

\* WeeklyService.get_weekly_meal_plan: the response; fault.call is "none" or
\* "fetch".
get_weekly_meal_plan(tbl, fault) ==
    IF fault.call = "fetch" THEN LoadFailed(fault.raw)
    ELSE LET st == PlaceLinks([meal_plan |-> _create_empty_meal_plan, ok |-> TRUE],
                              order_by_position(tbl))
         IN IF st.ok THEN Success("read", FALSE, st.meal_plan) ELSE LoadFailed("KeyError")

(***************************************************************************)
(* Request bodies.                                                         *)
(***************************************************************************)
Tags == <<"0", "1", "2", "3", "4", "5", "6", "7", "8", "9", "a", "b", "c">>

\* "# h/<i>" and "## x": one recipe with a URL and one ingredient line.
\* Without a path the URL is "h".
RecipeBlock(i, withPath) ==
    (IF withPath THEN <<"#", " ", "h", "/", Tags[i + 1]>> ELSE <<"#", " ", "h">>)
        \o <<"\n", "#", "#", " ", "x">>

\* A text of n recipes.
RecipeText(n, withPath) ==
    join(<<"\n">>, [i \in 1..n |-> RecipeBlock(i - 1, withPath)])

\* Two URL headings and no ingredient line: long enough, and no recipe.
NoRecipeText == <<"#", " ", "h", "/", "0", "\n", "#", " ", "h", "/", "1">>

\* One complete recipe in 8 characters.
ShortText == <<"#", " ", "h", "\n", "#", "#", " ", "x">>

\* Whitespace only.
BlankText == <<" ", " ", " ", " ", " ", " ", "\n", " ", " ", " ", " ", " ", " ">>

\* A recipe whose URL pydantic rejects, then a good one.
BadUrlText ==
    <<"#", " ", "b", "a", "d", "\n", "#", "#", " ", "x", "\n">> \o RecipeBlock(1, TRUE)

\* One recipe of exactly MinLength characters, inside surrounding whitespace.
PaddedText == <<" ", "\n">> \o RecipeText(1, TRUE) \o <<"\n", " ">>

SmallTexts ==
    {<<>>, BlankText, ShortText, NoRecipeText, BadUrlText, PaddedText,
     RecipeText(2, TRUE)}

AssignTexts ==
    {RecipeText(n, withPath) : n \in 1..MaxRecipes, withPath \in BOOLEAN}
        \cup {NoRecipeText}

\* The insert calls a text can lead to: two per recipe at most.
FailInserts(body_text) ==
    0..(2 * Len(_parse_input_to_list(_clean_input_texts(strip(body_text)))))

\* The text of the exception that a failing external call raises.
RawErrors == {"connection reset by peer", "duplicate key value"}

\* A run in which no external call fails.
NoFault == [call |-> "none", raw |-> ""]

\* The runs in which one of these calls fails, with each raw text, and NoFault.
Faults(calls) == {NoFault} \cup [call : calls, raw : RawErrors]

IngestFaults == Faults({"delete_all", "llm"})
SwapFaults == Faults({"fetch1", "fetch2", "update1", "update2"})
MoveFaults == Faults({"fetch", "update"})
ReadFaults == Faults({"fetch"})

\* The ids a request can name: the empty id, the ids of the rows in the table,
\* and one id that no row has.
Ids == {EmptyId} \cup {table[i].id : i \in DOMAIN table} \cup {nextId}

\* Positions handed to the lookups, with one on each side of the range.
Positions == (-1)..14

\* Positions handed to get_day_and_meal: the range, its neighbours, and some
\* integers a multiple of 14 away from a slot.
ProbePositions == Positions \cup {-14, -13, -2, 15, 26, 27, 28}

\* Target positions of a move request: one on each side of the range, the two
\* slots that the first recipe of an ingest occupies, and two other slots.
MoveTargets == {-1, 0, 2, 5, 13, 14}

(***************************************************************************)
(* The weekly table under ingest, swap, move and read.                     *)
(***************************************************************************)
\* dependency/limiter.py: login_rate_limit allows 5 requests per 60 seconds;
\* every 50th request, counted by request_count, triggers a cleanup of the
\* entries older than 3600 seconds.
LOGIN_WINDOW_SECONDS == 60
LOGIN_LIMIT == 5
CLEANUP_EVERY == 50
CLEANUP_AGE_SECONDS == 3600
\* general_rate_limit allows 60 requests per 60 seconds, with a cleanup on
\* every 100th request.
GENERAL_WINDOW_SECONDS == 60
GENERAL_LIMIT == 60
GENERAL_CLEANUP_EVERY == 100

\* The worker threads of the thread pool that runs login_rate_limit.
Workers == 1..MaxWorkers

\* Two server processes on one database. A handler is a coroutine whose
\* storage calls block its event loop, so the requests of one process run one
\* after the other; requests of different processes interleave at the
\* storage calls.
Procs == {1, 2}

\* The locals of a request: the step it is at, the ids of a swap and the
\* positions it fetched, the insert calls of an ingest and how many of them
\* it has made, and the status it answers with.
Local(pc_, meal1_id, meal2_id, meal1_pos, meal2_pos, calls, made, status) ==
    [pc |-> pc_, meal1_id |-> meal1_id, meal2_id |-> meal2_id,
     meal1_pos |-> meal1_pos, meal2_pos |-> meal2_pos, calls |-> calls,
     made |-> made, status |-> status]

Idle == Local("idle", 0, 0, None, None, <<>>, 0, "")

\* What the client sent with the request that was handled last.
Request(op, meal1_id, meal2_id, position, text) ==
    [op |-> op, meal1_id |-> meal1_id, meal2_id |-> meal2_id, position |-> position,
     text |-> text]

NoRequest == Request("none", 0, 0, 0, <<>>)

Init ==
    /\ table = <<>>
    /\ nextId = 1
    /\ ops = 0
    /\ response = NoResponse
    /\ request = NoRequest
    /\ storage = <<>>
    /\ clock = 0
    /\ pc = [w \in Workers |-> "idle"]
    /\ request_count = [w \in Workers |-> 0]
    /\ started = 0
    /\ admitted = <<>>
    /\ proc = [p \in Procs |-> Idle]

Ingest(body_text, fault, failInsert) ==
    LET r == ingredients(table, nextId, body_text, fault, failInsert)
    IN /\ table' = r.table
       /\ nextId' = r.nextId
       /\ response' = r.resp
       /\ request' = Request("ingest", 0, 0, 0, body_text)
       /\ ops' = ops + 1
       /\ UNCHANGED <<limiter, proc>>

Swap(meal1_id, meal2_id, fault) ==
    LET r == swap_meal_positions(table, meal1_id, meal2_id, fault)
    IN /\ table' = r.table
       /\ response' = r.resp
       /\ request' = Request("swap", meal1_id, meal2_id, 0, <<>>)
       /\ ops' = ops + 1
       /\ UNCHANGED <<nextId, limiter, proc>>

Move(meal_id, target_position, fault) ==
    LET r == move_meal(table, meal_id, target_position, fault)
    IN /\ table' = r.table
       /\ response' = r.resp
       /\ request' = Request("move", meal_id, 0, target_position, <<>>)
       /\ ops' = ops + 1
       /\ UNCHANGED <<nextId, limiter, proc>>

Read(fault) ==
    /\ response' = get_weekly_meal_plan(table, fault)
    /\ request' = Request("read", 0, 0, 0, <<>>)
    /\ ops' = ops + 1
    /\ UNCHANGED <<table, nextId, limiter, proc>>

IngestSmall ==
    /\ ops < MaxOps
    /\ \E body_text \in SmallTexts, fault \in IngestFaults :
        \E failInsert \in FailInserts(body_text) : Ingest(body_text, fault, failInsert)

SwapAny ==
    /\ ops < MaxOps
    /\ \E meal1_id \in Ids, meal2_id \in Ids, fault \in SwapFaults :
           Swap(meal1_id, meal2_id, fault)

MoveAny ==
    /\ ops < MaxOps
    /\ \E meal_id \in Ids, target_position \in MoveTargets, fault \in MoveFaults :
           Move(meal_id, target_position, fault)

ReadAny ==
    /\ ops < MaxOps
    /\ \E fault \in ReadFaults : Read(fault)

Next == IngestSmall \/ SwapAny \/ MoveAny \/ ReadAny

Spec == Init /\ [][Next]_vars

(***************************************************************************)
(* Ingests and reads alone: what an ingest does to the plan that an        *)
(* earlier ingest, complete or failed, has left.                           *)
(***************************************************************************)
NextIngest == IngestSmall \/ ReadAny

SpecIngest == Init /\ [][NextIngest]_vars

(***************************************************************************)
(* The slot assigner alone: one ingest of up to MaxRecipes recipes against *)
(* the empty table, and a read of what it left.                            *)
(***************************************************************************)
IngestRecipes ==
    /\ ops = 0
    /\ \E body_text \in AssignTexts, fault \in IngestFaults :
        \E failInsert \in FailInserts(body_text) : Ingest(body_text, fault, failInsert)

ReadAssigned ==
    /\ ops = 1
    /\ \E fault \in ReadFaults : Read(fault)

NextAssign == IngestRecipes \/ ReadAssigned

SpecAssign == Init /\ [][NextAssign]_vars

(***************************************************************************)
(* The pure functions alone: the position map and its reverse lookup, and  *)
(* the parser on every text of up to MaxLines lines of LinePool.           *)
(***************************************************************************)
DayNames == {"Monday", "Tuesday", "Wednesday", "Thursday", "Friday", "Saturday", "Sunday"}

LinePool ==
    { <<"#", " ", "h", "/", "0">>,
      <<"#", " ", "h", "/", "1">>,
      <<"#", "#", " ", "x">>,
      <<"x">>,
      <<"#", "h">>,
      <<>>,
      <<" ", "#", "#", " ", "y", " ">> }

RECURSIVE LineSeqs(_)
\* The sequences of exactly n lines of LinePool.
LineSeqs(n) ==
    IF n = 0 THEN {<<>>}
    ELSE {<<l>> \o ls : l \in LinePool, ls \in LineSeqs(n - 1)}

PureTexts == {join(<<"\n">>, ls) : ls \in UNION {LineSeqs(n) : n \in 0..MaxLines}}

\* A position is looked up in POSITION_MAP and the pair is mapped back.
PositionLookup(position) ==
    /\ ops = 0
    /\ position \in DOMAIN POSITION_MAP
    /\ LET pair == POSITION_MAP[position]
       IN response' = Success("position_lookup", FALSE,
                              [position |-> position, pair |-> pair,
                               back |-> _get_position(pair[1], pair[2])])
    /\ ops' = ops + 1
    /\ UNCHANGED <<table, nextId, request, limiter, proc>>

\* A position, inside the range or not, is mapped to its (day, meal) pair.
DayAndMealLookup(position) ==
    /\ ops = 0
    /\ response' = Success("day_and_meal", FALSE,
                           [position |-> position, pair |-> get_day_and_meal(position)])
    /\ ops' = ops + 1
    /\ UNCHANGED <<table, nextId, request, limiter, proc>>

\* A (day, meal) pair, canonical or not, is mapped to its position.
ReverseLookup(day_name, meal_type) ==
    /\ ops = 0
    /\ response' = Success("reverse_lookup", FALSE,
                           [pair |-> <<day_name, meal_type>>,
                            position |-> _get_position(day_name, meal_type)])
    /\ ops' = ops + 1
    /\ UNCHANGED <<table, nextId, request, limiter, proc>>

\* A text is cleaned and parsed.
ParseText(input_text) ==
    /\ ops = 0
    /\ response' = Success("parse", FALSE,
                           [text |-> input_text,
                            parsed |-> _parse_input_to_list(_clean_input_texts(input_text))])
    /\ ops' = ops + 1
    /\ UNCHANGED <<table, nextId, request, limiter, proc>>

PositionLookupAny ==
    /\ ops = 0
    /\ \E position \in Positions : PositionLookup(position)

DayAndMealLookupAny ==
    /\ ops = 0
    /\ \E position \in ProbePositions : DayAndMealLookup(position)

ReverseLookupAny ==
    /\ ops = 0
    /\ \E day_name \in DayNames \cup {"Funday"}, meal_type \in {"Lunch", "Dinner", "Brunch"} :
           ReverseLookup(day_name, meal_type)

ParseTextAny ==
    /\ ops = 0
    /\ \E input_text \in PureTexts : ParseText(input_text)

NextPure == PositionLookupAny \/ DayAndMealLookupAny \/ ReverseLookupAny \/ ParseTextAny

SpecPure == Init /\ [][NextPure]_vars

(***************************************************************************)
(* dependency/limiter.py: login requests of one client IP, handled by      *)
(* MaxWorkers threads. Each acquisition of _storage_lock is one step.      *)
(***************************************************************************)
\* time.time(), in seconds: the clock ticks every 30 seconds.
time == 30 * clock

\* _clean_old_requests: the timestamps younger than the window.
_clean_old_requests(timestamps, current_time, window_seconds) ==
    LET young(timestamp) == current_time - timestamp < window_seconds
    IN SelectSeq(timestamps, young)

\* _add_request_timestamp
_add_request_timestamp(timestamps, current_time) == Append(timestamps, current_time)

\* _cleanup_expired_entries: the timestamps younger than one hour.
_cleanup_expired_entries(timestamps, current_time) ==
    LET young(timestamp) == current_time - timestamp < CLEANUP_AGE_SECONDS
    IN SelectSeq(timestamps, young)

\* A login request arrives and a free worker thread takes it.
LoginStart(w) ==
    /\ pc[w] = "idle"
    /\ started < MaxLogins
    /\ started' = started + 1
    /\ pc' = [pc EXCEPT ![w] = "clean"]
    /\ UNCHANGED <<storage, clock, request_count, admitted>>

\* login_rate_limit: _clean_old_requests(ip, 60).
CleanOld(w) ==
    /\ pc[w] = "clean"
    /\ storage' = _clean_old_requests(storage, time, LOGIN_WINDOW_SECONDS)
    /\ pc' = [pc EXCEPT ![w] = "count"]
    /\ UNCHANGED <<clock, request_count, started, admitted>>

\* login_rate_limit: request_count is read under the lock; 429 is raised when
\* it is at the limit.
CountRequests(w) ==
    /\ pc[w] = "count"
    /\ request_count' = [request_count EXCEPT ![w] = Len(storage)]
    /\ pc' = [pc EXCEPT ![w] = IF Len(storage) >= LOGIN_LIMIT THEN "idle" ELSE "add"]
    /\ UNCHANGED <<storage, clock, started, admitted>>

\* login_rate_limit: _add_request_timestamp(ip); the request is admitted.
AddTimestamp(w) ==
    /\ pc[w] = "add"
    /\ storage' = _add_request_timestamp(storage, time)
    /\ admitted' = Append(admitted, time)
    /\ pc' = [pc EXCEPT ![w] = IF request_count[w] % CLEANUP_EVERY = 0
                                THEN "cleanup" ELSE "idle"]
    /\ UNCHANGED <<clock, request_count, started>>

\* login_rate_limit: the periodic _cleanup_expired_entries().
CleanupExpired(w) ==
    /\ pc[w] = "cleanup"
    /\ storage' = _cleanup_expired_entries(storage, time)
    /\ pc' = [pc EXCEPT ![w] = "idle"]
    /\ UNCHANGED <<clock, request_count, started, admitted>>

\* Thirty seconds pass.
Tick ==
    /\ clock < MaxTicks
    /\ clock' = clock + 1
    /\ UNCHANGED <<storage, pc, request_count, started, admitted>>

LoginStartAny == (\E w \in Workers : LoginStart(w)) /\ UNCHANGED <<weekly, proc>>

CleanOldAny == (\E w \in Workers : CleanOld(w)) /\ UNCHANGED <<weekly, proc>>

CountRequestsAny == (\E w \in Workers : CountRequests(w)) /\ UNCHANGED <<weekly, proc>>

AddTimestampAny == (\E w \in Workers : AddTimestamp(w)) /\ UNCHANGED <<weekly, proc>>

CleanupExpiredAny == (\E w \in Workers : CleanupExpired(w)) /\ UNCHANGED <<weekly, proc>>

TickAny == Tick /\ UNCHANGED <<weekly, proc>>

NextLimiter ==
    LoginStartAny \/ CleanOldAny \/ CountRequestsAny \/ AddTimestampAny
        \/ CleanupExpiredAny \/ TickAny

SpecLimiter == Init /\ [][NextLimiter]_vars

(***************************************************************************)
(* Properties.                                                             *)
(***************************************************************************)
\* The row of the table with this id.
RowOf(tbl, id) == SelectById(tbl, id)[1]

HasRow(tbl, id) == SelectById(tbl, id) # <<>>

\* A table without its ids: what was written, in the order it was written.
Written(tbl) ==
    [i \in DOMAIN tbl |->
        [link |-> tbl[i].link, position |-> tbl[i].position,
         day_name |-> tbl[i].day_name, meal_type |-> tbl[i].meal_type]]

\* The rows of a table at one position.
RowsAt(tbl, position) == {i \in DOMAIN tbl : tbl[i].position = position}

\* The rows of a table with one link.
RowsWith(tbl, link) == {i \in DOMAIN tbl : tbl[i].link = link}

\* The recipes that the handler parses from a request body.
ParsedOf(body_text) == _parse_input_to_list(_clean_input_texts(strip(body_text)))

\* The slot of a day and a meal as the data model states it:
\* slot = 2 * dayIndex + mealOffset.
WeekDays == <<"Monday", "Tuesday", "Wednesday", "Thursday", "Friday", "Saturday", "Sunday">>
MealNames == <<"Lunch", "Dinner">>
SlotRow(link, slot) ==
    [link |-> link, position |-> slot,
     day_name |-> WeekDays[(slot \div 2) + 1], meal_type |-> MealNames[(slot % 2) + 1]]

\* The slots of recipe i: pair (i // 2) mod 4, meal i mod 2, one slot for each
\* distinct day of the pair.
SlotsOfRecipe(i) ==
    LET pair == (i \div 2) % 4
        meal == i % 2
    IN IF pair = 3 THEN <<12 + meal>> ELSE <<4 * pair + meal, 4 * pair + 2 + meal>>

RECURSIVE ExpectedRows(_, _)
\* What the slot assigner is to write for the recipes from index i on.
ExpectedRows(parsed, i) ==
    IF i >= Len(parsed) THEN <<>>
    ELSE LET link == validate_url(parsed[i + 1].url)
             slots == SlotsOfRecipe(i)
         IN [k \in DOMAIN slots |-> SlotRow(link, slots[k])] \o ExpectedRows(parsed, i + 1)

\* C1: for every slot s in 0..13 the reverse lookup of the pair of s is s; the
\* 14 slots have 14 distinct pairs, and these are all 7 days x {Lunch, Dinner}.
C1_PositionBijection ==
    /\ DOMAIN POSITION_MAP = 0..13
    /\ \A s \in 0..13 : _get_position(POSITION_MAP[s][1], POSITION_MAP[s][2]) = s
    /\ Cardinality({POSITION_MAP[s] : s \in 0..13}) = 14
    /\ {POSITION_MAP[s] : s \in 0..13} = DayNames \X {"Lunch", "Dinner"}
    /\ (response.op = "position_lookup" => response.data.back = response.data.position)

C1_Witness ==
    /\ response.op = "position_lookup"
    /\ response.data.position = 13
    /\ response.data.pair = <<"Sunday", "Dinner">>
    /\ response.data.back = 13

\* C2: after a swap of two existing entries succeeds, each has the position
\* the other had, and the stored day_name and meal_type of each are the pair
\* of its new position.
C2_SwapRewritesDayMeal ==
    \A a \in Ids, b \in Ids :
        LET r == swap_meal_positions(table, a, b, NoFault)
        IN r.resp.status = "success" =>
              /\ RowOf(r.table, a).position = RowOf(table, b).position
              /\ RowOf(r.table, b).position = RowOf(table, a).position
              /\ \A id \in {a, b} :
                    <<RowOf(r.table, id).day_name, RowOf(r.table, id).meal_type>>
                        = POSITION_MAP[RowOf(r.table, id).position]

\* C3: in every reachable state every stored entry's day_name and meal_type
\* are the pair of its position.
C3_DayMealMatchPosition ==
    \A i \in DOMAIN table :
        /\ table[i].position \in DOMAIN POSITION_MAP
        /\ <<table[i].day_name, table[i].meal_type>> = POSITION_MAP[table[i].position]

\* C4: a swap that names an id with no row fails, leaves the table as it was,
\* and, when the lookups themselves work, reports "not found" with the first
\* missing id in the message; whichever of the two arguments is missing.
C4_SwapMissingIdNoUpdate ==
    \A a \in Ids \ {EmptyId}, b \in Ids \ {EmptyId}, fault \in SwapFaults :
        LET r == swap_meal_positions(table, a, b, fault)
            missing == IF ~HasRow(table, a) THEN a ELSE b
        IN (~HasRow(table, a) \/ ~HasRow(table, b)) =>
              /\ r.resp.status = "error"
              /\ r.table = table
              /\ (fault.call \notin {"fetch1", "fetch2"} =>
                     r.resp.message = [text |-> SwapNotFound, id |-> missing, raw |-> ""])

C4_Witness ==
    /\ response.op = "swap"
    /\ response.status = "error"
    /\ response.message.text = SwapNotFound
    /\ ~HasRow(table, response.message.id)
    /\ Len(table) >= 2

Url(i) == <<"h", "/", Tags[i + 1]>>

LinkAndPosition(tbl) == [i \in DOMAIN tbl |-> <<tbl[i].link, tbl[i].position>>]

PositionsOf(tbl, rows) == {tbl[i].position : i \in rows}

LinksOf(tbl, rows) == {tbl[i].link : i \in rows}

\* C5: recipe i is written once at the slot of each distinct day of pair
\* (i // 2) mod 4 with meal Lunch for even i and Dinner for odd i: two rows for
\* the first three pairs, one for Sunday. Two recipes give four rows: recipe 0
\* at slots 0 and 2, recipe 1 at slots 1 and 3.
C5_AssignerPlacement ==
    /\ \A t \in AssignTexts :
          IngredientsRequest(t).valid =>
              LET r == ingredients(table, nextId, t, NoFault, 0)
              IN /\ r.resp.status = "success"
                 /\ Written(r.table) = ExpectedRows(ParsedOf(t), 0)
    /\ LET two == RecipeText(2, TRUE)
           r == ingredients(table, nextId, two, NoFault, 0)
       IN /\ [i \in 1..2 |-> ParsedOf(two)[i].url] = <<Url(0), Url(1)>>
          /\ LinkAndPosition(r.table)
                = << <<Url(0), 0>>, <<Url(0), 2>>, <<Url(1), 1>>, <<Url(1), 3>> >>
    /\ (response.op = "ingest" /\ response.status = "success" =>
           \E t \in AssignTexts : Written(table) = ExpectedRows(ParsedOf(t), 0))

C5_Witness ==
    /\ response.op = "ingest"
    /\ response.status = "success"
    /\ LinkAndPosition(table)
          = << <<Url(0), 0>>, <<Url(0), 2>>, <<Url(1), 1>>, <<Url(1), 3>> >>

\* C6: eight recipes against an empty table give exactly 14 rows, one at each
\* slot 0..13; recipes 6 and 7 are written once each, at slots 12 and 13.
C6_EightRecipesFillTheWeek ==
    /\ LET r == ingredients(table, nextId, RecipeText(8, TRUE), NoFault, 0)
       IN /\ r.resp.status = "success"
          /\ Len(ParsedOf(RecipeText(8, TRUE))) = 8
          /\ Len(r.table) = 14
          /\ \A s \in 0..13 : Cardinality(RowsAt(r.table, s)) = 1
          /\ Cardinality(RowsWith(r.table, Url(6))) = 1
          /\ RowsWith(r.table, Url(6)) = RowsAt(r.table, 12)
          /\ Cardinality(RowsWith(r.table, Url(7))) = 1
          /\ RowsWith(r.table, Url(7)) = RowsAt(r.table, 13)
    /\ (response.op = "ingest" /\ response.status = "success" /\ Len(table) >= 14 =>
           \A s \in 0..13 : RowsAt(table, s) # {})

C6_Witness ==
    /\ response.op = "ingest"
    /\ response.status = "success"
    /\ Len(table) = 14
    /\ \A s \in 0..13 : Cardinality(RowsAt(table, s)) = 1
    /\ RowsWith(table, Url(6)) = RowsAt(table, 12)
    /\ RowsWith(table, Url(7)) = RowsAt(table, 13)

\* C7: with nine recipes against an empty table recipe 8 goes to pair 0 with
\* Lunch, slots 0 and 2, where recipe 0 already is: those two slots end with
\* two rows each, 16 rows in all.
C7_NinthRecipeWrapsToFirstPair ==
    LET r == ingredients(table, nextId, RecipeText(9, TRUE), NoFault, 0)
    IN /\ r.resp.status = "success"
       /\ Len(ParsedOf(RecipeText(9, TRUE))) = 9
       /\ Len(r.table) = 16
       /\ Cardinality(RowsWith(r.table, Url(8))) = 2
       /\ PositionsOf(r.table, RowsWith(r.table, Url(8))) = {0, 2}
       /\ \A s \in {0, 2} :
             /\ Cardinality(RowsAt(r.table, s)) = 2
             /\ LinksOf(r.table, RowsAt(r.table, s)) = {Url(0), Url(8)}
       /\ \A s \in (0..13) \ {0, 2} : Cardinality(RowsAt(r.table, s)) = 1

C7_Witness ==
    /\ response.op = "ingest"
    /\ response.status = "success"
    /\ Len(table) = 16
    /\ LinksOf(table, RowsAt(table, 0)) = {Url(0), Url(8)}
    /\ LinksOf(table, RowsAt(table, 2)) = {Url(0), Url(8)}

\* C8: an ingest with an empty text, or one of fewer than 10 characters, fails
\* with the invalid-input error, and neither deletes nor inserts.
C8_ShortTextRejectedUntouched ==
    \A t \in SmallTexts, fault \in IngestFaults, failInsert \in 0..2 :
        Len(t) < 10 =>
            LET r == ingredients(table, nextId, t, fault, failInsert)
            IN /\ r.resp.status = "error"
               /\ r.resp.code = "VALIDATION_ERROR"
               /\ ~r.resp.llm_called
               /\ r.table = table
               /\ r.nextId = nextId

C8_Witness ==
    /\ response.op = "ingest"
    /\ response.code = "VALIDATION_ERROR"
    /\ Len(table) = 4

\* C9: an ingest of a text that is long enough but holds no valid recipe fails
\* with an error, leaves the rows of the table untouched and does not call the
\* language model.
C9_NoRecipesLeavesTableUntouched ==
    \A t \in SmallTexts :
        (IngredientsRequest(t).valid /\ ParsedOf(t) = <<>>) =>
            LET r == ingredients(table, nextId, t, NoFault, 0)
            IN /\ r.table = table
               /\ r.resp.status = "error"
               /\ ~r.resp.llm_called

\* C10: the plan view of a read has exactly the 7 day keys, each with exactly
\* the keys Lunch and Dinner, whatever the table holds; on the empty table all
\* 14 lists are empty.
HasAllKeys(view) ==
    /\ DOMAIN view = DayNames
    /\ \A d \in DayNames : DOMAIN view[d] = {"Lunch", "Dinner"}

C10_ViewHasAllDaysAndMeals ==
    /\ LET resp == get_weekly_meal_plan(table, NoFault)
       IN /\ resp.status = "success"
          /\ HasAllKeys(resp.data)
          /\ (table = <<>> =>
                 \A d \in DayNames, m \in {"Lunch", "Dinner"} : resp.data[d][m] = <<>>)
    /\ (response.op = "read" /\ response.status = "success" => HasAllKeys(response.data))

C10_Witness ==
    /\ response.op = "read"
    /\ response.status = "success"
    /\ HasAllKeys(response.data)
    /\ response.data["Monday"]["Lunch"] # <<>>
    /\ response.data["Sunday"]["Dinner"] = <<>>

\* Target positions on each side of the range 0..13.
OutOfRange == {-2, -1, 14, 15}

\* C11: a move whose target position is outside 0..13 is rejected with the
\* invalid-input error and updates no row of the table; the repository's
\* update_position refuses such a position as well.
C11_MoveOutOfRangeRejected ==
    \A meal_id \in Ids, p \in OutOfRange, fault \in MoveFaults :
        LET r == move_meal(table, meal_id, p, fault)
        IN /\ r.resp.status = "error"
           /\ r.resp.code = "VALIDATION_ERROR"
           /\ r.resp.http = 422
           /\ r.table = table
           /\ update_position(table, meal_id, p, FALSE) = [table |-> table, ok |-> FALSE]

C11_Witness ==
    /\ request.op = "move"
    /\ request.position = 14
    /\ HasRow(table, request.meal1_id)
    /\ response.status = "error"
    /\ response.code = "VALIDATION_ERROR"

\* C12: a move with a target position in 0..13 and an id that no row of the
\* table has fails with the not-found error, not with success, and leaves
\* the table as it was.
C12_MoveMissingIdNotFound ==
    \A meal_id \in Ids \ {EmptyId}, p \in 0..13, fault \in MoveFaults :
        ~HasRow(table, meal_id) =>
            LET r == move_meal(table, meal_id, p, fault)
            IN /\ r.resp.status = "error"
               /\ r.table = table
               /\ (fault.call # "fetch" =>
                      /\ r.resp.error_type = "NotFoundError"
                      /\ r.resp.message.id = meal_id)

C12_Witness ==
    /\ request.op = "move"
    /\ request.position \in 0..13
    /\ request.meal1_id # EmptyId
    /\ ~HasRow(table, request.meal1_id)
    /\ table # <<>>
    /\ response.status = "error"
    /\ response.error_type = "NotFoundError"
    /\ response.message.id = request.meal1_id

\* C13: the HTTP status of an ingest response is 200 on success, 503 when
\* delete-all or an insert failed in the persistence layer, and 500 for any
\* other failure.
C13_IngestStatusFromOutcome ==
    \A t \in SmallTexts, fault \in IngestFaults, failInsert \in 0..2 :
        IngredientsRequest(t).valid =>
            LET r == ingredients(table, nextId, t, fault, failInsert)
                cleared == delete_all_weekly(table)
                stored == _add_meals_with_day_pairing(cleared, nextId, ParsedOf(t), failInsert)
                persistence_failed == fault.call = "delete_all" \/ ~stored.ok
            IN r.resp.http = IF r.resp.status = "success" THEN 200
                             ELSE IF persistence_failed THEN 503
                             ELSE 500

\* C14: the message of the error envelope of a failing ingest, swap or move
\* does not depend on the text of the exception raised underneath: two runs
\* that differ only in that text give the same message.
C14_MessageIndependentOfRawText ==
    \A raw1 \in RawErrors, raw2 \in RawErrors :
        /\ \A call \in {"delete_all", "llm"}, t \in SmallTexts, failInsert \in 0..2 :
              ingredients(table, nextId, t, [call |-> call, raw |-> raw1], failInsert).resp.message
                = ingredients(table, nextId, t, [call |-> call, raw |-> raw2], failInsert).resp.message
        /\ \A call \in {"fetch", "update"}, meal_id \in Ids, p \in MoveTargets :
              move_meal(table, meal_id, p, [call |-> call, raw |-> raw1]).resp.message
                = move_meal(table, meal_id, p, [call |-> call, raw |-> raw2]).resp.message
        /\ \A call \in {"fetch1", "fetch2", "update1", "update2"}, a \in Ids, b \in Ids :
              swap_meal_positions(table, a, b, [call |-> call, raw |-> raw1]).resp.message
                = swap_meal_positions(table, a, b, [call |-> call, raw |-> raw2]).resp.message

\* C15: get_day_and_meal fails with the out-of-range error for every
\* position outside 0..13 and returns the (day, meal) pair of the slot for
\* every position inside 0..13.
C15_DayAndMealRange ==
    /\ \A position \in ProbePositions :
          IF position \in 0..13
          THEN /\ get_day_and_meal(position) \in DayNames \X {"Lunch", "Dinner"}
               /\ get_day_and_meal(position)
                     = <<WeekDays[(position \div 2) + 1], MealNames[(position % 2) + 1]>>
          ELSE get_day_and_meal(position) = InvalidPosition
    /\ (response.op = "day_and_meal" =>
           (response.data.pair = InvalidPosition) = (response.data.position \notin 0..13))

C15_Witness ==
    /\ response.op = "day_and_meal"
    /\ response.data.position = 14
    /\ response.data.pair = InvalidPosition

\* The login requests admitted in the 60 seconds that end at time t.
AdmittedInWindow(t) ==
    {i \in DOMAIN admitted : t - LOGIN_WINDOW_SECONDS < admitted[i] /\ admitted[i] <= t}

\* C16: under every interleaving of the login requests of one client IP, at
\* most 5 of them are admitted within any window of 60 seconds.
C16_AtMostFiveLoginsPerWindow ==
    \A i \in DOMAIN admitted : Cardinality(AdmittedInWindow(admitted[i])) <= LOGIN_LIMIT

\* The sections of a text: the pieces between the headings "# ".
SectionsOf(input_text) == split(input_text, <<"\n", "#", " ">>)

\* The lines of a section.
SectionLines(section) == split(strip(section), <<"\n">>)

\* The first line of a section without its heading marker.
UrlLine(section) ==
    LET line == strip(SectionLines(section)[1])
        marks == {k \in DOMAIN line : \A j \in 1..k : line[j] \in {"#", " "}}
    IN strip(SubSeq(line, Cardinality(marks) + 1, Len(line)))

\* The section has a line after the first that starts with "## ".
HasSubHeading(section) ==
    \E k \in 2..Len(SectionLines(section)) :
        LET line == strip(SectionLines(section)[k])
        IN Len(line) >= 3 /\ SubSeq(line, 1, 3) = <<"#", "#", " ">>

\* The sections for which the parser is to emit a recipe.
EmittedSections(input_text) ==
    LET emits(section) ==
            /\ strip(section) # <<>>
            /\ UrlLine(section) # <<>>
            /\ HasSubHeading(section)
    IN SelectSeq(SectionsOf(input_text), emits)

\* C17: the parser emits a recipe for a section exactly when the section has
\* a non-empty URL line and a line starting with "## "; a section with a URL
\* and no such line is dropped; the recipes are in the order of their sections.
C17_ParserEmitsIffUrlAndSubHeading ==
    response.op = "parse" =>
        LET input_text == _clean_input_texts(response.data.text)
            parsed == response.data.parsed
            kept == EmittedSections(input_text)
        IN /\ Len(parsed) = Len(kept)
           /\ \A i \in DOMAIN parsed :
                 /\ parsed[i].url = UrlLine(kept[i])
                 /\ parsed[i].ingredients # <<>>

C17_Witness ==
    /\ response.op = "parse"
    /\ Len(SectionsOf(_clean_input_texts(response.data.text))) = 2
    /\ [i \in 1..2 |-> UrlLine(SectionsOf(_clean_input_texts(response.data.text))[i])]
          = << <<"h", "/", "0">>, <<"h", "/", "1">> >>
    /\ [i \in DOMAIN response.data.parsed |-> response.data.parsed[i].url]
          = << <<"h", "/", "1">> >>

\* The recipes, of n, that the slot assigner puts at a slot.
RecipesAt(n, slot) ==
    {i \in 0..(n - 1) : \E k \in DOMAIN SlotsOfRecipe(i) : SlotsOfRecipe(i)[k] = slot}

\* The texts of more than 8 recipes.
WrappingTexts == {RecipeText(n, TRUE) : n \in 9..MaxRecipes}

\* C18 as stated: with more than 8 recipes against an empty table the later
\* recipes overwrite the earlier ones, so that every slot holds exactly one
\* entry, that of the highest-index recipe assigned to the slot.
C18_LastWriterWins ==
    \A t \in WrappingTexts :
        LET r == ingredients(table, nextId, t, NoFault, 0)
            n == Len(ParsedOf(t))
        IN \A slot \in 0..13 :
              /\ Cardinality(RowsAt(r.table, slot)) = 1
              /\ \A i \in RecipesAt(n, slot) :
                    (\A j \in RecipesAt(n, slot) : j <= i) =>
                        LinksOf(r.table, RowsAt(r.table, slot)) = {Url(i)}

\* C18, amended: with more than 8 recipes against an empty table the later
\* recipes are inserted next to the earlier ones and nothing is overwritten:
\* every slot holds one row for each recipe assigned to it, in the order of
\* the recipes, so that the slots of the recipes past the 8th hold more than
\* one row and the table holds more than 14 rows.
C18_LaterRecipesAreAddedNotOverwritten ==
    \A t \in WrappingTexts :
        LET r == ingredients(table, nextId, t, NoFault, 0)
            n == Len(ParsedOf(t))
        IN /\ n > 8
           /\ r.resp.status = "success"
           /\ Len(r.table) > 14
           /\ \A slot \in 0..13 :
                 /\ Cardinality(RowsAt(r.table, slot)) = Cardinality(RecipesAt(n, slot))
                 /\ LinksOf(r.table, RowsAt(r.table, slot))
                       = {Url(i) : i \in RecipesAt(n, slot)}
           /\ \A a \in DOMAIN r.table, b \in DOMAIN r.table :
                 (a < b /\ r.table[a].position = r.table[b].position) =>
                     \E i \in 0..(n - 1), j \in 0..(n - 1) :
                         i < j /\ r.table[a].link = Url(i) /\ r.table[b].link = Url(j)

C18_Witness ==
    /\ request.op = "ingest"
    /\ Len(ParsedOf(request.text)) > 8
    /\ response.status = "success"
    /\ Len(table) > 14
    /\ PositionsOf(table, RowsWith(table, Url(0))) = {0, 2}
    /\ PositionsOf(table, RowsWith(table, Url(8))) = {0, 2}

IdsInCell(view, pair) ==
    {view[pair[1]][pair[2]][k].id : k \in DOMAIN view[pair[1]][pair[2]]}

\* C20: a move of an entry onto a position p that another entry occupies
\* succeeds, with no check that p is empty; afterwards both entries have
\* position p and the day and meal derived from p, and a read lists both of
\* them in the cell of that day and meal.
C20_MoveOntoOccupiedSharesSlot ==
    \A meal_id \in Ids, p \in MoveTargets \cap (0..13) :
        (HasRow(table, meal_id)
            /\ \E i \in RowsAt(table, p) : table[i].id # meal_id) =>
            LET r == move_meal(table, meal_id, p, NoFault)
                view == get_weekly_meal_plan(r.table, NoFault)
                here == {r.table[i].id : i \in RowsAt(r.table, p)}
            IN /\ r.resp.status = "success"
               /\ here = {table[i].id : i \in RowsAt(table, p)} \cup {meal_id}
               /\ Cardinality(here) >= 2
               /\ view.status = "success"
               /\ here \subseteq IdsInCell(view.data, POSITION_MAP[p])
               /\ \A i \in RowsAt(r.table, p) :
                     <<r.table[i].day_name, r.table[i].meal_type>> = POSITION_MAP[p]

(***************************************************************************)
(* The read alone, on every stored table of up to MaxRows rows. The weekly *)
(* table is a database table: a read takes whatever rows it holds, also    *)
(* rows with a null position, a position outside the map, or a day_name    *)
(* and meal_type that differ from those of the position.                   *)
(***************************************************************************)
\* <<position, day_name, meal_type>> of the rows of a stored table.
RowShapes ==
    {<<0, "Monday", "Lunch">>, <<0, "Tuesday", "Dinner">>, <<3, "Tuesday", "Dinner">>,
     <<13, "Sunday", "Dinner">>, <<None, "Monday", "Lunch">>, <<-1, "Monday", "Lunch">>,
     <<14, "Sunday", "Dinner">>}

StoredTables ==
    UNION {[1..n -> RowShapes] : n \in 0..MaxRows}

\* The table with one row per shape, with ids in insertion order.
StoredTable(shapes) ==
    [i \in DOMAIN shapes |->
        Row(i, <<"h", "/", "0">>, shapes[i][1], shapes[i][2], shapes[i][3])]

InitRead ==
    /\ \E shapes \in StoredTables :
           /\ table = StoredTable(shapes)
           /\ nextId = Len(shapes) + 1
    /\ ops = 0
    /\ response = NoResponse
    /\ request = NoRequest
    /\ storage = <<>>
    /\ clock = 0
    /\ pc = [w \in Workers |-> "idle"]
    /\ request_count = [w \in Workers |-> 0]
    /\ started = 0
    /\ admitted = <<>>
    /\ proc = [p \in Procs |-> Idle]

ReadStored ==
    /\ ops = 0
    /\ \E fault \in ReadFaults : Read(fault)

NextRead == ReadStored

SpecRead == InitRead /\ [][NextRead]_vars

\* The cells of the plan view.
Cells == {POSITION_MAP[p] : p \in DOMAIN POSITION_MAP}

\* The entries of a cell of the view that are the row r.
EntriesOf(view, cell, r) ==
    {k \in DOMAIN view[cell[1]][cell[2]] : view[cell[1]][cell[2]][k] = r}

\* The cells of the view that hold the row r.
CellsOf(view, r) == {cell \in Cells : EntriesOf(view, cell, r) # {}}

RECURSIVE SumOver(_, _)
\* The sum of f over the set S.
SumOver(f, S) ==
    IF S = {} THEN 0
    ELSE LET x == CHOOSE x \in S : TRUE IN f[x] + SumOver(f, S \ {x})

\* The number of entries in the whole view.
EntryCount(view) ==
    SumOver([cell \in Cells |-> Len(view[cell[1]][cell[2]])], Cells)

Recognized(position) == position # None /\ position \in 0..13

\* C21: a read places every stored row whose position is in 0..13 into exactly
\* one cell of the view, once, and that cell is the one the position map gives
\* for its position, whatever day_name and meal_type the row stores; it omits
\* every row whose position is null or outside 0..13; and the view has as
\* many entries as the table has rows with a recognized position.
C21_ReadFilesRowsByPosition ==
    LET r == get_weekly_meal_plan(table, NoFault)
    IN /\ r.status = "success"
       /\ \A i \in DOMAIN table :
             IF Recognized(table[i].position)
             THEN /\ CellsOf(r.data, table[i]) = {POSITION_MAP[table[i].position]}
                  /\ Cardinality(EntriesOf(r.data, POSITION_MAP[table[i].position],
                                           table[i])) = 1
             ELSE CellsOf(r.data, table[i]) = {}
       /\ EntryCount(r.data) =
             Cardinality({i \in DOMAIN table : Recognized(table[i].position)})

\* A read answered with a view of a table that has a row with a null
\* position, a row past the range, and a row at position 0 stored as Tuesday
\* Dinner, which the view lists under Monday Lunch.
C21_Witness ==
    /\ request.op = "read"
    /\ response.status = "success"
    /\ \E i \in DOMAIN table : table[i].position = None
    /\ \E i \in DOMAIN table : table[i].position = 14
    /\ \E i \in DOMAIN table :
          /\ table[i].position = 0
          /\ table[i].day_name = "Tuesday"
          /\ EntriesOf(response.data, <<"Monday", "Lunch">>, table[i]) # {}
          /\ EntriesOf(response.data, <<"Tuesday", "Dinner">>, table[i]) = {}

\* The texts of the ingests whose inserts are made to fail: the small request
\* bodies, and a text of eight recipes, which fills the week; the texts with a
\* URL that the insert itself rejects are left out.
FailingTexts ==
    {t \in SmallTexts \cup {RecipeText(8, TRUE)} :
        \A i \in DOMAIN ParsedOf(t) : validate_url(ParsedOf(t)[i].url) # <<>>}

\* C22: when the k-th insert of the slot assigner fails during an ingest, the
\* rows of the inserts before it are in the table and no row of a later
\* insert is, the language model is not called, and the ingest answers with
\* an error; the plan stored before the ingest is gone and is not put back.
C22_FailedInsertAbortsTheRest ==
    \A t \in FailingTexts :
        IngredientsRequest(t).valid =>
            LET expected == ExpectedRows(ParsedOf(t), 0)
            IN \A k \in 1..Len(expected) :
                   LET r == ingredients(table, nextId, t, NoFault, k)
                   IN /\ r.resp.status = "error"
                      /\ r.resp.code = "PROCESSING_ERROR"
                      /\ ~r.resp.llm_called
                      /\ Written(r.table) = SubSeq(expected, 1, k - 1)
                      /\ \A i \in DOMAIN r.table : r.table[i].id >= nextId

\* An ingest of two recipes whose second insert failed, after an earlier
\* ingest had stored two rows: the table holds the row of the first insert
\* only, and its id shows that two rows were stored before it.
C22_Witness ==
    /\ request.op = "ingest"
    /\ request.text = RecipeText(2, TRUE)
    /\ response.status = "error"
    /\ response.error_type = "RepositoryError"
    /\ ~response.llm_called
    /\ Len(table) = 1
    /\ table[1].id = 3
    /\ table[1].position = 0

\* C23: after an ingest that runs alone and succeeds, no row that was in the
\* table before it remains: the table holds exactly the rows that the slot
\* assigner wrote for the recipes parsed from this request, whatever the
\* table held before.
C23_IngestReplacesThePlan ==
    /\ \A t \in SmallTexts :
          LET r == ingredients(table, nextId, t, NoFault, 0)
          IN r.resp.status = "success" =>
                /\ Written(r.table) = ExpectedRows(ParsedOf(t), 0)
                /\ \A i \in DOMAIN r.table, j \in DOMAIN table : r.table[i] # table[j]
                /\ \A i \in DOMAIN r.table : r.table[i].id >= nextId
    /\ (response.op = "ingest" /\ response.status = "success" =>
           Written(table) = ExpectedRows(ParsedOf(request.text), 0))

\* A successful ingest of one recipe, after an earlier operation had stored
\* rows: the two rows in the table are the third and the fourth ever stored
\* or later ones.
C23_Witness ==
    /\ request.op = "ingest"
    /\ response.status = "success"
    /\ request.text = PaddedText
    /\ Len(table) = 2
    /\ table[1].id >= 3
    /\ LinkAndPosition(table) = << <<Url(0), 0>>, <<Url(0), 2>> >>

(***************************************************************************)
(* Two swaps in two server processes. swap_meal_positions makes four       *)
(* storage calls, each a statement of its own against the database, with   *)
(* no transaction around them: the steps of one swap are fetch1, fetch2,   *)
(* update1 and update2.                                                    *)
(***************************************************************************)
\* The table that an ingest of two recipes leaves: rows 1..4 at the
\* positions 0, 2, 1 and 3.
RaceTable == ingredients(<<>>, 1, RecipeText(2, TRUE), NoFault, 0).table

RaceIds == {RaceTable[i].id : i \in DOMAIN RaceTable}

InitRace ==
    /\ table = RaceTable
    /\ nextId = Len(RaceTable) + 1
    /\ ops = 0
    /\ response = NoResponse
    /\ request = NoRequest
    /\ storage = <<>>
    /\ clock = 0
    /\ pc = [w \in Workers |-> "idle"]
    /\ request_count = [w \in Workers |-> 0]
    /\ started = 0
    /\ admitted = <<>>
    /\ proc = [p \in Procs |-> Idle]

\* An update that writes the position the other row holds now.
swap_update1_Reread(tbl, l) ==
    UpdatePositionOnly(tbl, l.meal1_id, SelectById(tbl, l.meal2_id)[1].position)

\* update({"position": meal2_pos}).eq("id", meal1_id)
swap_update1(tbl, l) == UpdatePositionOnly(tbl, l.meal1_id, l.meal2_pos)

\* update({"position": meal1_pos}).eq("id", meal2_id)
swap_update2(tbl, l) == UpdatePositionOnly(tbl, l.meal2_id, l.meal1_pos)

\* The request arrives: `if not meal1_id or not meal2_id: raise ValueError`.
SwapStart(p, meal1_id, meal2_id) ==
    /\ proc[p].pc = "idle"
    /\ proc' = [proc EXCEPT ![p] =
                   IF meal1_id = EmptyId \/ meal2_id = EmptyId
                   THEN Local("done", meal1_id, meal2_id, None, None, <<>>, 0, "error")
                   ELSE Local("fetch1", meal1_id, meal2_id, None, None, <<>>, 0, "")]
    /\ UNCHANGED <<weekly, limiter>>

\* The select of meal1_id, and the check that it found a row.
SwapFetch1(p) ==
    /\ proc[p].pc = "fetch1"
    /\ LET meal1_result == SelectById(table, proc[p].meal1_id)
       IN proc' = [proc EXCEPT ![p] =
                      IF meal1_result = <<>>
                      THEN [@ EXCEPT !.pc = "done", !.status = "error"]
                      ELSE [@ EXCEPT !.pc = "fetch2",
                                     !.meal1_pos = meal1_result[1].position]]
    /\ UNCHANGED <<weekly, limiter>>

\* The select of meal2_id, and the check that it found a row.
SwapFetch2(p) ==
    /\ proc[p].pc = "fetch2"
    /\ LET meal2_result == SelectById(table, proc[p].meal2_id)
       IN proc' = [proc EXCEPT ![p] =
                      IF meal2_result = <<>>
                      THEN [@ EXCEPT !.pc = "done", !.status = "error"]
                      ELSE [@ EXCEPT !.pc = "update1",
                                     !.meal2_pos = meal2_result[1].position]]
    /\ UNCHANGED <<weekly, limiter>>

SwapUpdate1(p) ==
    /\ proc[p].pc = "update1"
    /\ table' = swap_update1(table, proc[p])
    /\ proc' = [proc EXCEPT ![p].pc = "update2"]
    /\ UNCHANGED <<nextId, ops, response, request, limiter>>

SwapUpdate2(p) ==
    /\ proc[p].pc = "update2"
    /\ table' = swap_update2(table, proc[p])
    /\ proc' = [proc EXCEPT ![p].pc = "done", ![p].status = "success"]
    /\ UNCHANGED <<nextId, ops, response, request, limiter>>

SwapStartAny ==
    \E p \in Procs, meal1_id \in RaceIds, meal2_id \in RaceIds :
        SwapStart(p, meal1_id, meal2_id)

SwapFetch1Any == \E p \in Procs : SwapFetch1(p)

SwapFetch2Any == \E p \in Procs : SwapFetch2(p)

SwapUpdate1Any == \E p \in Procs : SwapUpdate1(p)

SwapUpdate2Any == \E p \in Procs : SwapUpdate2(p)

NextSwapRace ==
    SwapStartAny \/ SwapFetch1Any \/ SwapFetch2Any \/ SwapUpdate1Any \/ SwapUpdate2Any

SpecSwapRace == InitRace /\ [][NextSwapRace]_vars

\* The process p has finished swap(meal1_id, meal2_id) with success.
Swapped(p, meal1_id, meal2_id) ==
    /\ proc[p].pc = "done"
    /\ proc[p].status = "success"
    /\ proc[p].meal1_id = meal1_id
    /\ proc[p].meal2_id = meal2_id

\* The table after the two swaps run one after the other.
SerialSwaps(tbl, a1, b1, a2, b2) ==
    swap_meal_positions(swap_meal_positions(tbl, a1, b1, NoFault).table,
                        a2, b2, NoFault).table

OtherText(n) == join(<<"\n">>, [i \in 1..n |-> RecipeBlock(i + 1, TRUE)])

\* The request bodies of the two processes: one or two recipes each, with
\* URLs that tell the rows of the two ingests apart.
RaceTexts(p) ==
    IF p = 1 THEN {RecipeText(1, TRUE), RecipeText(2, TRUE)}
    ELSE {OtherText(1), OtherText(2)}

\* The insert calls that _add_meals_with_day_pairing makes for a text, in
\* order: the columns of each row.
InsertCalls(recipes_text) ==
    Written(_add_meals_with_day_pairing(
                <<>>, 1, _parse_input_to_list(_clean_input_texts(recipes_text)), 0).table)

\* An insert that first deletes the rows stored at the position.
ingest_insert_ReplaceSlot(tbl, nid, call) ==
    LET elsewhere(r) == r.position # call.position
    IN insert_weekly_meal(SelectSeq(tbl, elsewhere), nid, call.link, call.position,
                          call.day_name, call.meal_type, FALSE)

\* self.ingredients_repository.insert_weekly_meal(item["url"], position, ...)
ingest_insert(tbl, nid, call) ==
    insert_weekly_meal(tbl, nid, call.link, call.position, call.day_name,
                       call.meal_type, FALSE)

\* The request arrives and its body is validated.
IngestStart(p, body_text) ==
    /\ proc[p].pc = "idle"
    /\ LET ingredients_request == IngredientsRequest(body_text)
       IN proc' = [proc EXCEPT ![p] =
                      IF ~ingredients_request.valid
                      THEN Local("done", 0, 0, None, None, <<>>, 0, "error")
                      ELSE Local("delete", 0, 0, None, None,
                                 InsertCalls(ingredients_request.recipes_text), 0, "")]
    /\ UNCHANGED <<weekly, limiter>>

\* self.ingredients_repository.delete_all_weekly()
IngestDelete(p) ==
    /\ proc[p].pc = "delete"
    /\ table' = delete_all_weekly(table)
    /\ proc' = [proc EXCEPT ![p].pc = IF proc[p].calls = <<>> THEN "llm" ELSE "insert"]
    /\ UNCHANGED <<nextId, ops, response, request, limiter>>

\* The next insert call of the slot assigner.
IngestInsert(p) ==
    /\ proc[p].pc = "insert"
    /\ LET made == proc[p].made + 1
           r == ingest_insert(table, nextId, proc[p].calls[made])
       IN /\ table' = r.table
          /\ nextId' = r.nextId
          /\ proc' = [proc EXCEPT ![p] =
                         IF ~r.ok THEN [@ EXCEPT !.pc = "done", !.status = "error"]
                         ELSE [@ EXCEPT !.made = made,
                                        !.pc = IF made = Len(proc[p].calls)
                                               THEN "llm" ELSE "insert"]]
    /\ UNCHANGED <<ops, response, request, limiter>>

\* await self._generate_shopping_list(...), and the success envelope.
IngestLlm(p) ==
    /\ proc[p].pc = "llm"
    /\ proc' = [proc EXCEPT ![p].pc = "done", ![p].status = "success"]
    /\ UNCHANGED <<weekly, limiter>>

IngestStartAny == \E p \in Procs : \E body_text \in RaceTexts(p) : IngestStart(p, body_text)

IngestDeleteAny == \E p \in Procs : IngestDelete(p)

IngestInsertAny == \E p \in Procs : IngestInsert(p)

IngestLlmAny == \E p \in Procs : IngestLlm(p)

NextIngestRace == IngestStartAny \/ IngestDeleteAny \/ IngestInsertAny \/ IngestLlmAny

SpecIngestRace == InitRace /\ [][NextIngestRace]_vars

\* The links of the rows that an ingest of process p writes.
RaceLinks(p) == IF p = 1 THEN {Url(0), Url(1)} ELSE {Url(2), Url(3)}

\* The rows of the table that the ingest of process p wrote, in table order.
RowsBy(p) ==
    LET mine(r) == r.link \in RaceLinks(p)
    IN SelectSeq(Written(table), mine)

IsSuffix(s, t) ==
    /\ Len(s) <= Len(t)
    /\ s = SubSeq(t, Len(t) - Len(s) + 1, Len(t))

\* The columns of the rows that a full ingest of the text leaves.
PlanOf(body_text) == ExpectedRows(ParsedOf(body_text), 0)

PositionCounts(tbl) == [s \in 0..13 |-> Cardinality(RowsAt(tbl, s))]

\* C26: a swap that runs alone and succeeds keeps the multiset of positions
\* of the table, changes no entry other than the two it names and no id or
\* link; a second swap of the same two entries, in either order, puts both
\* back at their original positions; and the swap of an entry with itself
\* leaves its position as it was.
C26_SwapIsAnInvolution ==
    \A a \in Ids, b \in Ids :
        LET r == swap_meal_positions(table, a, b, NoFault)
        IN r.resp.status = "success" =>
              /\ PositionCounts(r.table) = PositionCounts(table)
              /\ Len(r.table) = Len(table)
              /\ \A i \in DOMAIN table :
                    /\ r.table[i].id = table[i].id
                    /\ r.table[i].link = table[i].link
                    /\ table[i].id \notin {a, b} => r.table[i] = table[i]
              /\ (a = b => RowOf(r.table, a).position = RowOf(table, a).position)
              /\ \A again \in {<<a, b>>, <<b, a>>} :
                    LET r2 == swap_meal_positions(r.table, again[1], again[2], NoFault)
                    IN /\ r2.resp.status = "success"
                       /\ RowOf(r2.table, a).position = RowOf(table, a).position
                       /\ RowOf(r2.table, b).position = RowOf(table, b).position
                       /\ PositionCounts(r2.table) = PositionCounts(table)

\* A swap of rows 1 and 2 after an ingest succeeded: row 1 is at slot 2 and
\* row 2 at slot 0.
C26_Witness ==
    /\ request.op = "swap"
    /\ {request.meal1_id, request.meal2_id} = {1, 2}
    /\ response.status = "success"
    /\ RowOf(table, 1).position = 2
    /\ RowOf(table, 2).position = 0
    /\ Len(table) = 4

\* C27: in every state that ingest, swap and move operations reach from the
\* empty table, the failed ones included, every stored entry has a position
\* that is not null and is an integer in 0..13; and no call of
\* update_position, whatever position it is given, stores another one.
C27_StoredPositionsInRange ==
    /\ \A i \in DOMAIN table :
          /\ table[i].position # None
          /\ table[i].position \in 0..13
    /\ \A meal_id \in Ids, position \in MoveTargets \cup {None} :
          LET r == update_position(table, meal_id, position, FALSE)
          IN \A i \in DOMAIN r.table :
                /\ r.table[i].position # None
                /\ r.table[i].position \in 0..13

\* A move to position -1 was refused after an ingest and the table still
\* holds the four rows of the ingest at the slots 0..3.
C27_Witness ==
    /\ request.op = "move"
    /\ request.position = -1
    /\ request.meal1_id = 1
    /\ response.status = "error"
    /\ {table[i].position : i \in DOMAIN table} = 0..3

\* The rows that the slot assigner writes for the recipes of a text into the
\* empty table, when every insert succeeds.
Assigned(body_text) == _add_meals_with_day_pairing(<<>>, 1, ParsedOf(body_text), 0)

\* A slot of the table holds more than one row.
SharedSlot(tbl) == \E s \in 0..13 : Cardinality(RowsAt(tbl, s)) > 1

\* C28: for every N in 0..8 the slot assigner, run on N recipes against the
\* empty table with every insert succeeding, leaves at most one row at each
\* slot, and 2 * N rows for N <= 6 and 12 + (N - 6) rows for N in 7..8; a
\* slot that holds more than one row after a single ingest implies N > 8.
C28_AtMostOneRowPerSlotUpToEight ==
    /\ {Len(ParsedOf(t)) : t \in AssignTexts} = 0..MaxRecipes
    /\ \A t \in AssignTexts :
          LET N == Len(ParsedOf(t))
              st == Assigned(t)
          IN /\ st.ok
             /\ N <= 8 =>
                   /\ ~SharedSlot(st.table)
                   /\ Len(st.table) = IF N <= 6 THEN 2 * N ELSE 12 + (N - 6)
                   /\ \A i \in DOMAIN st.table : st.table[i].position \in 0..13
             /\ SharedSlot(st.table) => N > 8
    /\ (response.op = "ingest" /\ response.status = "success" =>
           /\ table = Assigned(request.text).table
           /\ (SharedSlot(table) => Len(ParsedOf(request.text)) > 8))

\* An ingest of seven recipes into the empty table succeeded: 13 rows, one at
\* each slot but the last.
C28_Witness ==
    /\ response.op = "ingest"
    /\ response.status = "success"
    /\ Len(ParsedOf(request.text)) = 7
    /\ Len(table) = 13
    /\ {table[i].position : i \in DOMAIN table} = 0..12
    /\ ~SharedSlot(table)

\* C29: when the call of the language model fails after the slot assigner has
\* completed, the ingest answers with the error envelope of code
\* PROCESSING_ERROR and the table holds the plan of this ingest, as a
\* successful ingest would leave it, and not the plan stored before: the
\* changes of the table are not rolled back.
C29_LlmFailureKeepsTheNewPlan ==
    \A t \in FailingTexts, raw \in RawErrors :
        IngredientsRequest(t).valid =>
            LET r == ingredients(table, nextId, t, [call |-> "llm", raw |-> raw], 0)
                good == ingredients(table, nextId, t, NoFault, 0)
            IN /\ r.resp.status = "error"
               /\ r.resp.code = "PROCESSING_ERROR"
               /\ r.resp.llm_called
               /\ good.resp.status = "success"
               /\ r.table = good.table
               /\ Written(r.table) = ExpectedRows(ParsedOf(t), 0)
               /\ \A i \in DOMAIN r.table : r.table[i].id >= nextId

\* An ingest of one recipe whose language-model call failed, after an
\* earlier ingest of two recipes: the table holds the two new rows and none
\* of the four rows stored before.
C29_Witness ==
    /\ request.op = "ingest"
    /\ request.text = PaddedText
    /\ response.status = "error"
    /\ response.code = "PROCESSING_ERROR"
    /\ response.llm_called
    /\ Len(table) = 2
    /\ table[1].id = 5
    /\ table[2].id = 6

(***************************************************************************)
(* dependency/limiter.py: login_rate_limit and general_rate_limit for one  *)
(* client IP. Both read and write _request_storage[ip], the one list of    *)
(* timestamps of the IP. The requests of the two kinds together are        *)
(* MaxLogins at most; a request takes far less than the 30 seconds of a    *)
(* tick, so the clock ticks between requests.                              *)
(***************************************************************************)
\* A request to an endpoint behind general_rate_limit arrives.
GeneralStart(w) ==
    /\ pc[w] = "idle"
    /\ started < MaxLogins
    /\ started' = started + 1
    /\ pc' = [pc EXCEPT ![w] = "general_clean"]
    /\ UNCHANGED <<storage, clock, request_count, admitted>>

\* general_rate_limit: _clean_old_requests(ip, 60).
GeneralCleanOld(w) ==
    /\ pc[w] = "general_clean"
    /\ storage' = _clean_old_requests(storage, time, GENERAL_WINDOW_SECONDS)
    /\ pc' = [pc EXCEPT ![w] = "general_count"]
    /\ UNCHANGED <<clock, request_count, started, admitted>>

\* general_rate_limit: request_count is read under the lock; 429 is raised
\* when it is at the limit.
GeneralCountRequests(w) ==
    /\ pc[w] = "general_count"
    /\ request_count' = [request_count EXCEPT ![w] = Len(storage)]
    /\ pc' = [pc EXCEPT ![w] = IF Len(storage) >= GENERAL_LIMIT
                                THEN "idle" ELSE "general_add"]
    /\ UNCHANGED <<storage, clock, started, admitted>>

\* general_rate_limit: _add_request_timestamp(ip), then the periodic cleanup.
GeneralAddTimestamp(w) ==
    /\ pc[w] = "general_add"
    /\ storage' = _add_request_timestamp(storage, time)
    /\ pc' = [pc EXCEPT ![w] = IF request_count[w] % GENERAL_CLEANUP_EVERY = 0
                                THEN "cleanup" ELSE "idle"]
    /\ UNCHANGED <<clock, request_count, started, admitted>>

\* Thirty seconds pass while no request is being handled.
TickBetweenRequests ==
    /\ \A w \in Workers : pc[w] = "idle"
    /\ Tick

GeneralStartAny == (\E w \in Workers : GeneralStart(w)) /\ UNCHANGED <<weekly, proc>>

GeneralCleanOldAny == (\E w \in Workers : GeneralCleanOld(w)) /\ UNCHANGED <<weekly, proc>>

GeneralCountRequestsAny ==
    (\E w \in Workers : GeneralCountRequests(w)) /\ UNCHANGED <<weekly, proc>>

GeneralAddTimestampAny ==
    (\E w \in Workers : GeneralAddTimestamp(w)) /\ UNCHANGED <<weekly, proc>>

TickBetweenRequestsAny == TickBetweenRequests /\ UNCHANGED <<weekly, proc>>

NextLimiters ==
    \/ LoginStartAny
    \/ CleanOldAny
    \/ CountRequestsAny
    \/ AddTimestampAny
    \/ CleanupExpiredAny
    \/ GeneralStartAny
    \/ GeneralCleanOldAny
    \/ GeneralCountRequestsAny
    \/ GeneralAddTimestampAny
    \/ TickBetweenRequestsAny

SpecLimiters == Init /\ [][NextLimiters]_vars

\* C30: a login request is rejected with 429 only if at least 5 login
\* requests of the same IP were admitted in the 60 seconds before it; the
\* requests that the general limiter admitted for other endpoints do not
\* count. A login request is rejected when its thread reads a request_count
\* of 5 or more.
C30_LoginRejectedOnlyAfterFiveLogins ==
    \A w \in Workers :
        (pc[w] = "count" /\ Len(storage) >= LOGIN_LIMIT) =>
            Cardinality(AdmittedInWindow(time)) >= LOGIN_LIMIT

====
